---------------------------- MODULE Spec2Model ----------------------------
(***************************************************************************)
(* Arc-curve and particle-progress engine of the threat map.               *)
(*                                                                         *)
(* The repository holds several near-duplicate map components.  Each one   *)
(* builds an SVG path descriptor (or a Three.js curve) between two points  *)
(* and samples positions along it for a travelling particle.  This module  *)
(* models every such call site:                                            *)
(*                                                                         *)
(*   "AnimatedAttackArcs"  src/src/component/AnimatedAttackArcs.js         *)
(*   "D3AnimatedArcs"      src/src/component/D3AnimatedArcs.tsx  40..486   *)
(*   "SimpleWorldMapGlobe" src/src/component/D3AnimatedArcs.tsx 532..986   *)
(*   "SimpleWorldMapCurve" src/src/component/D3AnimatedArcs.tsx 1032..1741 *)
(*   "SimpleWorldMapLine"  src/src/component/D3AnimatedArcs.tsx 1787..2096 *)
(*   "WorldMap"            src/src/app/page.tsx                            *)
(*   "ThreeJSArcs"         src/unnamed/part_002                            *)
(*   "LiveThreatMap"       src/unnamed/part_003                            *)
(*                                                                         *)
(* JavaScript numbers are modelled as exact rationals <<n, d>> in lowest   *)
(* terms with d > 0.  Math.sqrt is the one irrational operation: it is     *)
(* rounded down to a multiple of 1/SqrtRes.  Floating-point rounding of    *)
(* the other operations is outside the model.                              *)
(***************************************************************************)
EXTENDS Integers, Sequences, FiniteSets, TLC

(***************************************************************************)
(* Bounds of the model.                                                    *)
(***************************************************************************)
\* Projected pixel coordinates are drawn from {0, GridStep, FarCoord}.
GridStep == 100
FarCoord == 600
\* Progress values are k / ProgressDen for k in -1 .. ProgressDen + 1, and 1/2
\* and 5/3.
ProgressDen == 4
\* Math.sqrt is rounded down to a multiple of 1 / SqrtRes.
SqrtRes == 10

(***************************************************************************)
(* JavaScript number arithmetic on rationals.                              *)
(***************************************************************************)
Abs(x) == IF x < 0 THEN -x ELSE x

RECURSIVE GCD(_, _)
GCD(a, b) == IF b = 0 THEN a ELSE GCD(b, a % b)

\* The rational n / d in lowest terms, denominator positive.
Rat(n, d) ==
  LET g == GCD(Abs(n), Abs(d))
      s == IF d < 0 THEN -1 ELSE 1
  IN  <<(s * n) \div g, (s * d) \div g>>

Num(i) == <<i, 1>>

Add(a, b) ==
  LET l == (a[2] \div GCD(a[2], b[2])) * b[2]
  IN  Rat(a[1] * (l \div a[2]) + b[1] * (l \div b[2]), l)

Neg(a) == <<-a[1], a[2]>>

Sub(a, b) == Add(a, Neg(b))

Mul(a, b) ==
  LET g1 == GCD(Abs(a[1]), b[2])
      g2 == GCD(Abs(b[1]), a[2])
  IN  Rat((a[1] \div g1) * (b[1] \div g2), (a[2] \div g2) * (b[2] \div g1))

Half(a) == Mul(a, Rat(1, 2))

Le(a, b) == a[1] * b[2] <= b[1] * a[2]

\* Math.min
Min(a, b) == IF Le(a, b) THEN a ELSE b

\* Math.pow(x, 2) and Math.pow(x, 3)
Pow2(x) == Mul(x, x)
Pow3(x) == Mul(x, Mul(x, x))

\* Largest r with r * r <= n, by bisection on lo .. hi.
RECURSIVE ISqrtIn(_, _, _)
ISqrtIn(n, lo, hi) ==
  IF lo >= hi THEN lo
  ELSE LET mid == (lo + hi + 1) \div 2
       IN  IF mid * mid <= n THEN ISqrtIn(n, mid, hi) ELSE ISqrtIn(n, lo, mid - 1)

\* An upper limit for the bisection: the least power of two whose square exceeds n.
RECURSIVE SqrtLimit(_, _)
SqrtLimit(n, k) == IF k * k > n THEN k ELSE SqrtLimit(n, 2 * k)

ISqrt(n) == ISqrtIn(n, 0, SqrtLimit(n, 1))

\* Math.sqrt, rounded down to a multiple of 1 / SqrtRes.
Sqrt(a) == Rat(ISqrt((a[1] * SqrtRes * SqrtRes) \div a[2]), SqrtRes)

(***************************************************************************)
(* Inputs.                                                                 *)
(***************************************************************************)
\* What the projection returns for a coordinate it cannot project; also the
\* value of a result not computed yet.
NULL == << >>

Coords == {0, GridStep, FarCoord}

\* Projected points [x, y].
Points == {<<Num(x), Num(y)>> : x \in Coords, y \in Coords}

\* curveType strings; "spiral" stands for any value the switch does not name.
CurveTypes == {"globe", "great-circle", "parabolic", "spiral"}

ProgressSet ==
  {Rat(k, ProgressDen) : k \in -1 .. ProgressDen + 1} \cup {Rat(1, 2), Rat(5, 3)}

\* Directions of the nodes on the unit sphere; a node position is radius * direction.
UnitDirs == {<<Num(1), Num(0), Num(0)>>, <<Rat(3, 5), Rat(4, 5), Num(0)>>,
             <<Num(0), Num(1), Num(0)>>, <<Num(0), Num(0), Num(1)>>,
             <<Num(-1), Num(0), Num(0)>>}

\* THREE.Vector3 helpers
Scale3(v, k) == <<Mul(v[1], k), Mul(v[2], k), Mul(v[3], k)>>
Add3(u, v) == <<Add(u[1], v[1]), Add(u[2], v[2]), Add(u[3], v[3])>>
DistanceTo(u, v) ==
  Sqrt(Add(Add(Pow2(Sub(v[1], u[1])), Pow2(Sub(v[2], u[2]))), Pow2(Sub(v[3], u[3]))))


(***************************************************************************)
(* Shared arithmetic of the curve code.  The same expressions are repeated *)
(* verbatim at every call site.                                            *)
(***************************************************************************)
\* dx = target[0] - source[0]; dy = ...; distance = Math.sqrt(dx * dx + dy * dy)
Distance(source, target) ==
  LET dx == Sub(target[1], source[1])
      dy == Sub(target[2], source[2])
  IN  Sqrt(Add(Mul(dx, dx), Mul(dy, dy)))

\* QuadTerm with the last weight copied from the first: Math.pow(1 - t, 2) * b.
QuadTerm_copiedWeight(a, c, b, t) ==
  LET u == Sub(Num(1), t)
  IN  Add(Add(Mul(Pow2(u), a), Mul(Mul(Mul(Num(2), u), t), c)), Mul(Pow2(u), b))

\* QuadTerm without the factor 2 of the middle weight.
QuadTerm_noTwo(a, c, b, t) ==
  LET u == Sub(Num(1), t)
  IN  Add(Add(Mul(Pow2(u), a), Mul(Mul(u, t), c)), Mul(Pow2(t), b))

\* Math.pow(1 - t, 2) * a + 2 * (1 - t) * t * c + Math.pow(t, 2) * b
QuadTerm(a, c, b, t) ==
  LET u == Sub(Num(1), t)
  IN  Add(Add(Mul(Pow2(u), a), Mul(Mul(Mul(Num(2), u), t), c)), Mul(Pow2(t), b))

\* Math.pow(1 - t, 3) * a + 3 * Math.pow(1 - t, 2) * t * c1 +
\* 3 * (1 - t) * Math.pow(t, 2) * c2 + Math.pow(t, 3) * b
CubicTerm(a, c1, c2, b, t) ==
  LET u == Sub(Num(1), t)
  IN  Add(Add(Add(Mul(Pow3(u), a),
                  Mul(Mul(Mul(Num(3), Pow2(u)), t), c1)),
              Mul(Mul(Mul(Num(3), u), Pow2(t)), c2)),
          Mul(Pow3(t), b))

\* The template literals `M${..},${..}Q${..},${..} ${..},${..}` and so on, as the
\* token lists an SVG path parser reads back from them.  Number to string and
\* back is exact in JavaScript.
PathQ(s, cx, cy, t) == <<"M", s[1], s[2], "Q", cx, cy, t[1], t[2]>>
PathC(s, c1x, c1y, c2x, c2y, t) ==
  <<"M", s[1], s[2], "C", c1x, c1y, c2x, c2y, t[1], t[2]>>
PathL(s, t) == <<"M", s[1], s[2], "L", t[1], t[2]>>

(***************************************************************************)
(* AnimatedAttackArcs (AnimatedAttackArcs.js).  sourcePoint and            *)
(* targetPoint are what this.projection returned: a point or NULL.         *)
(***************************************************************************)
\* AAA_arcHeight with the default branch's cap copied from the parabolic one.
AAA_arcHeight_copiedCap(distance, curveType) ==
  CASE curveType = "great-circle" -> Min(Mul(distance, Rat(3, 10)), Num(150))
    [] curveType = "parabolic"    -> Min(Mul(distance, Rat(8, 10)), Num(400))
    [] OTHER                      -> Min(Mul(distance, Rat(6, 10)), Num(400))

\* The switch on curveType in createArcPath.
AAA_arcHeight(distance, curveType) ==
  CASE curveType = "great-circle" -> Min(Mul(distance, Rat(3, 10)), Num(150))
    [] curveType = "parabolic"    -> Min(Mul(distance, Rat(8, 10)), Num(400))
    [] OTHER                      -> Min(Mul(distance, Rat(6, 10)), Num(300))

\* A variant of createArcPath that draws the chord
createArcPath_chord(sourcePoint, targetPoint, curveType) ==
  IF sourcePoint = NULL \/ targetPoint = NULL THEN << >>
  ELSE PathQ(sourcePoint, Half(Add(sourcePoint[1], targetPoint[1])),
             Half(Add(sourcePoint[2], targetPoint[2])), targetPoint)

createArcPath(sourcePoint, targetPoint, curveType) ==
  IF sourcePoint = NULL \/ targetPoint = NULL THEN << >>
  ELSE
    LET distance  == Distance(sourcePoint, targetPoint)
        arcHeight == AAA_arcHeight(distance, curveType)
        midX == Half(Add(sourcePoint[1], targetPoint[1]))
        midY == Sub(Half(Add(sourcePoint[2], targetPoint[2])), arcHeight)
    IN  IF curveType = "great-circle"
        THEN PathQ(sourcePoint, midX, midY, targetPoint)
        ELSE
          LET cp1X == Add(sourcePoint[1], Mul(Sub(midX, sourcePoint[1]), Rat(5, 10)))
              cp1Y == Sub(sourcePoint[2], Mul(arcHeight, Rat(3, 10)))
              cp2X == Sub(targetPoint[1], Mul(Sub(targetPoint[1], midX), Rat(5, 10)))
              cp2Y == Sub(targetPoint[2], Mul(arcHeight, Rat(3, 10)))
          IN  PathC(sourcePoint, cp1X, cp1Y, cp2X, cp2Y, targetPoint)

\* AAA_sampleHeight with Math.max in the default branch.
AAA_sampleHeight_max(distance, curveType) ==
  CASE curveType = "great-circle" -> Min(Mul(distance, Rat(3, 10)), Num(150))
    [] curveType = "parabolic"    -> Min(Mul(distance, Rat(8, 10)), Num(400))
    [] OTHER                      -> IF Le(Mul(distance, Rat(6, 10)), Num(300))
                                     THEN Num(300) ELSE Mul(distance, Rat(6, 10))

\* getPointAlongArc with the progress clamped to [0, 1] first.
getPointAlongArc_clamped(sourcePoint, targetPoint, t, curveType) ==
  IF sourcePoint = NULL \/ targetPoint = NULL THEN <<Num(0), Num(0)>>
  ELSE
    LET c == IF Le(t, Num(0)) THEN Num(0) ELSE IF Le(Num(1), t) THEN Num(1) ELSE t
    IN  <<Add(sourcePoint[1], Mul(Sub(targetPoint[1], sourcePoint[1]), c)),
          Add(sourcePoint[2], Mul(Sub(targetPoint[2], sourcePoint[2]), c))>>

\* The switch on curveType in getPointAlongArc.
AAA_sampleHeight(distance, curveType) ==
  CASE curveType = "great-circle" -> Min(Mul(distance, Rat(3, 10)), Num(150))
    [] curveType = "parabolic"    -> Min(Mul(distance, Rat(8, 10)), Num(400))
    [] OTHER                      -> Min(Mul(distance, Rat(6, 10)), Num(300))

getPointAlongArc(sourcePoint, targetPoint, t, curveType) ==
  IF sourcePoint = NULL \/ targetPoint = NULL THEN <<Num(0), Num(0)>>
  ELSE
    LET distance  == Distance(sourcePoint, targetPoint)
        arcHeight == AAA_sampleHeight(distance, curveType)
        midX == Half(Add(sourcePoint[1], targetPoint[1]))
        midY == Sub(Half(Add(sourcePoint[2], targetPoint[2])), arcHeight)
    IN  IF curveType = "great-circle"
        THEN <<QuadTerm(sourcePoint[1], midX, targetPoint[1], t),
               QuadTerm(sourcePoint[2], midY, targetPoint[2], t)>>
        ELSE
          LET cp1X == Add(sourcePoint[1], Mul(Sub(midX, sourcePoint[1]), Rat(5, 10)))
              cp1Y == Sub(sourcePoint[2], Mul(arcHeight, Rat(3, 10)))
              cp2X == Sub(targetPoint[1], Mul(Sub(targetPoint[1], midX), Rat(5, 10)))
              cp2Y == Sub(targetPoint[2], Mul(arcHeight, Rat(3, 10)))
          IN  <<CubicTerm(sourcePoint[1], cp1X, cp2X, targetPoint[1], t),
                CubicTerm(sourcePoint[2], cp1Y, cp2Y, targetPoint[2], t)>>

(***************************************************************************)
(* D3AnimatedArcs (D3AnimatedArcs.tsx 40..486): quadratic "globe" arcs.    *)
(***************************************************************************)
D3_arcHeight(distance) == Min(Mul(distance, Rat(4, 10)), Num(200))

\* createCurvedArcPath with the height added to the midpoint, not subtracted.
createCurvedArcPath_plus(source, target) ==
  LET distance  == Distance(source, target)
      arcHeight == D3_arcHeight(distance)
      midX == Half(Add(source[1], target[1]))
      midY == Add(Half(Add(source[2], target[2])), arcHeight)
  IN  PathQ(source, midX, midY, target)

createCurvedArcPath(source, target) ==
  LET distance  == Distance(source, target)
      arcHeight == D3_arcHeight(distance)
      midX == Half(Add(source[1], target[1]))
      midY == Sub(Half(Add(source[2], target[2])), arcHeight)
  IN  PathQ(source, midX, midY, target)

D3_sampleHeight(distance) == Min(Mul(distance, Rat(4, 10)), Num(200))

\* D3_getPointAlongArc with midY taken from source[1] twice.
D3_getPointAlongArc_typo(source, target, t) ==
  LET distance  == Distance(source, target)
      arcHeight == D3_sampleHeight(distance)
      midX == Half(Add(source[1], target[1]))
      midY == Sub(Half(Add(source[2], source[2])), arcHeight)
  IN  <<QuadTerm(source[1], midX, target[1], t),
        QuadTerm(source[2], midY, target[2], t)>>

D3_getPointAlongArc(source, target, t) ==
  LET distance  == Distance(source, target)
      arcHeight == D3_sampleHeight(distance)
      midX == Half(Add(source[1], target[1]))
      midY == Sub(Half(Add(source[2], target[2])), arcHeight)
  IN  <<QuadTerm(source[1], midX, target[1], t),
        QuadTerm(source[2], midY, target[2], t)>>

(***************************************************************************)
(* SimpleWorldMap, cubic globe arcs (D3AnimatedArcs.tsx 532..986).         *)
(***************************************************************************)
Globe_arcHeight(distance) == Min(Mul(distance, Rat(6, 10)), Num(300))

\* Globe_createDramaticGlobeArc with cp2Y copied from cp1Y (source[1]).
Globe_createDramaticGlobeArc_copied(source, target) ==
  LET distance  == Distance(source, target)
      arcHeight == Globe_arcHeight(distance)
      midX == Half(Add(source[1], target[1]))
      cp1X == Add(source[1], Mul(Sub(midX, source[1]), Rat(5, 10)))
      cp1Y == Sub(source[2], Mul(arcHeight, Rat(3, 10)))
      cp2X == Sub(target[1], Mul(Sub(target[1], midX), Rat(5, 10)))
      cp2Y == Sub(source[2], Mul(arcHeight, Rat(3, 10)))
  IN  PathC(source, cp1X, cp1Y, cp2X, cp2Y, target)

Globe_createDramaticGlobeArc(source, target) ==
  LET distance  == Distance(source, target)
      arcHeight == Globe_arcHeight(distance)
      midX == Half(Add(source[1], target[1]))
      cp1X == Add(source[1], Mul(Sub(midX, source[1]), Rat(5, 10)))
      cp1Y == Sub(source[2], Mul(arcHeight, Rat(3, 10)))
      cp2X == Sub(target[1], Mul(Sub(target[1], midX), Rat(5, 10)))
      cp2Y == Sub(target[2], Mul(arcHeight, Rat(3, 10)))
  IN  PathC(source, cp1X, cp1Y, cp2X, cp2Y, target)

Globe_sampleHeight(distance) == Min(Mul(distance, Rat(6, 10)), Num(300))

\* The position computed inline by the particle's animate callback.
Globe_animate(sourcePoint, targetPoint, t) ==
  LET distance  == Distance(sourcePoint, targetPoint)
      arcHeight == Globe_sampleHeight(distance)
      midX == Half(Add(sourcePoint[1], targetPoint[1]))
      cp1X == Add(sourcePoint[1], Mul(Sub(midX, sourcePoint[1]), Rat(5, 10)))
      cp1Y == Sub(sourcePoint[2], Mul(arcHeight, Rat(3, 10)))
      cp2X == Sub(targetPoint[1], Mul(Sub(targetPoint[1], midX), Rat(5, 10)))
      cp2Y == Sub(targetPoint[2], Mul(arcHeight, Rat(3, 10)))
  IN  <<CubicTerm(sourcePoint[1], cp1X, cp2X, targetPoint[1], t),
        CubicTerm(sourcePoint[2], cp1Y, cp2Y, targetPoint[2], t)>>

(***************************************************************************)
(* SimpleWorldMap with a curveType (D3AnimatedArcs.tsx 1032..1741).        *)
(***************************************************************************)
Curve_arcHeight(distance, curveType) ==
  CASE curveType = "great-circle" -> Min(Mul(distance, Rat(3, 10)), Num(150))
    [] curveType = "parabolic"    -> Min(Mul(distance, Rat(8, 10)), Num(400))
    [] OTHER                      -> Min(Mul(distance, Rat(6, 10)), Num(300))

createDramaticGlobeArc(source, target, curveType) ==
  LET distance  == Distance(source, target)
      arcHeight == Curve_arcHeight(distance, curveType)
      midX == Half(Add(source[1], target[1]))
      midY == Sub(Half(Add(source[2], target[2])), arcHeight)
  IN  IF curveType = "great-circle"
      THEN PathQ(source, midX, midY, target)
      ELSE
        LET cp1X == Add(source[1], Mul(Sub(midX, source[1]), Rat(5, 10)))
            cp1Y == Sub(source[2], Mul(arcHeight, Rat(3, 10)))
            cp2X == Sub(target[1], Mul(Sub(target[1], midX), Rat(5, 10)))
            cp2Y == Sub(target[2], Mul(arcHeight, Rat(3, 10)))
        IN  PathC(source, cp1X, cp1Y, cp2X, cp2Y, target)

Curve_sampleHeight(distance, curveType) ==
  CASE curveType = "great-circle" -> Min(Mul(distance, Rat(3, 10)), Num(150))
    [] curveType = "parabolic"    -> Min(Mul(distance, Rat(8, 10)), Num(400))
    [] OTHER                      -> Min(Mul(distance, Rat(6, 10)), Num(300))

\* Curve_getPointAlongArc with cp2Y taken from source[1] as cp1Y is.
Curve_getPointAlongArc_sourceHeights(source, target, t, curveType) ==
  LET distance  == Distance(source, target)
      arcHeight == Curve_sampleHeight(distance, curveType)
      midX == Half(Add(source[1], target[1]))
      midY == Sub(Half(Add(source[2], target[2])), arcHeight)
  IN  IF curveType = "great-circle"
      THEN <<QuadTerm(source[1], midX, target[1], t),
             QuadTerm(source[2], midY, target[2], t)>>
      ELSE
        LET cp1X == Add(source[1], Mul(Sub(midX, source[1]), Rat(5, 10)))
            cp1Y == Sub(source[2], Mul(arcHeight, Rat(3, 10)))
            cp2X == Sub(target[1], Mul(Sub(target[1], midX), Rat(5, 10)))
            cp2Y == Sub(source[2], Mul(arcHeight, Rat(3, 10)))
        IN  <<CubicTerm(source[1], cp1X, cp2X, target[1], t),
              CubicTerm(source[2], cp1Y, cp2Y, target[2], t)>>

Curve_getPointAlongArc(source, target, t, curveType) ==
  LET distance  == Distance(source, target)
      arcHeight == Curve_sampleHeight(distance, curveType)
      midX == Half(Add(source[1], target[1]))
      midY == Sub(Half(Add(source[2], target[2])), arcHeight)
  IN  IF curveType = "great-circle"
      THEN <<QuadTerm(source[1], midX, target[1], t),
             QuadTerm(source[2], midY, target[2], t)>>
      ELSE
        LET cp1X == Add(source[1], Mul(Sub(midX, source[1]), Rat(5, 10)))
            cp1Y == Sub(source[2], Mul(arcHeight, Rat(3, 10)))
            cp2X == Sub(target[1], Mul(Sub(target[1], midX), Rat(5, 10)))
            cp2Y == Sub(target[2], Mul(arcHeight, Rat(3, 10)))
        IN  <<CubicTerm(source[1], cp1X, cp2X, target[1], t),
              CubicTerm(source[2], cp1Y, cp2Y, target[2], t)>>

(***************************************************************************)
(* SimpleWorldMap with straight lines (D3AnimatedArcs.tsx 1787..2096).     *)
(***************************************************************************)
createSimpleArcPath(source, target) == PathL(source, target)

\* Line_animate with y advanced by the x difference.
Line_animate_copied(sourcePoint, targetPoint, t) ==
  <<Add(sourcePoint[1], Mul(Sub(targetPoint[1], sourcePoint[1]), t)),
    Add(sourcePoint[2], Mul(Sub(targetPoint[1], sourcePoint[1]), t))>>

\* x = sourcePoint[0] + (targetPoint[0] - sourcePoint[0]) * easeProgress, and y
Line_animate(sourcePoint, targetPoint, t) ==
  <<Add(sourcePoint[1], Mul(Sub(targetPoint[1], sourcePoint[1]), t)),
    Add(sourcePoint[2], Mul(Sub(targetPoint[2], sourcePoint[2]), t))>>

(***************************************************************************)
(* WorldMap (page.tsx): the drawn arc and the GSAP particle timeline.      *)
(***************************************************************************)
WorldMap_arcHeight(distance) ==
  LET baseHeight == Mul(distance, Rat(3, 10))
  IN  Min(baseHeight, Num(200))

WorldMap_createArcPath(source, target) ==
  LET distance  == Distance(source, target)
      arcHeight == WorldMap_arcHeight(distance)
      midX == Half(Add(source[1], target[1]))
      midY == Sub(Half(Add(source[2], target[2])), arcHeight)
  IN  PathQ(source, midX, midY, target)

WorldMap_particleHeight(distance) == Min(Mul(distance, Rat(3, 10)), Num(150))

\* The points the timeline moves the particle to, in order: the arc's apex
\* (midX, midY), the target, and back to the source.
addTravelingParticle(sourcePoint, targetPoint) ==
  LET distance  == Distance(sourcePoint, targetPoint)
      arcHeight == WorldMap_particleHeight(distance)
      midX == Half(Add(sourcePoint[1], targetPoint[1]))
      midY == Sub(Half(Add(sourcePoint[2], targetPoint[2])), arcHeight)
  IN  << <<midX, midY>>, targetPoint, sourcePoint >>

(***************************************************************************)
(* ThreeJSArcs (part_002) and LiveThreatMap (part_003): Three.js curves.   *)
(***************************************************************************)
\* radius * direction: the node position on the sphere.
ThreeJS_radius == Num(2)
Live_radius == Rat(5, 2)

\* ThreeJS_arcHeight with Math.max in place of Math.min.
ThreeJS_arcHeight_max(distance) ==
  IF Le(Mul(distance, Rat(8, 10)), Rat(15, 10)) THEN Rat(15, 10)
  ELSE Mul(distance, Rat(8, 10))

ThreeJS_arcHeight(distance) == Min(Mul(distance, Rat(8, 10)), Rat(15, 10))

\* new THREE.QuadraticBezierCurve3(start, controlPoint, end)
create3DCurvedArc(start, end) ==
  LET midPoint  == Scale3(Add3(start, end), Rat(5, 10))
      distance  == DistanceTo(start, end)
      arcHeight == ThreeJS_arcHeight(distance)
      controlPoint == <<midPoint[1], Add(midPoint[2], arcHeight), midPoint[3]>>
  IN  <<"Q3", start, controlPoint, end>>

Live_curveHeight == Num(3)

createLive3DArc(sourcePos, targetPos) ==
  LET midPoint == Scale3(Add3(sourcePos, targetPos), Rat(5, 10))
      curveHeight == Live_curveHeight
      controlPoint == Add3(midPoint, <<Num(0), curveHeight, Num(0)>>)
  IN  <<"Q3", sourcePos, controlPoint, targetPos>>

(***************************************************************************)
(* State: one arc of one component, from its inputs to its drawn path and  *)
(* the position of its particle.                                           *)
(***************************************************************************)
VARIABLES
  variant,        \* the component the arc belongs to
  sourcePoint,    \* projected source (NULL: not projectable), or a Vector3
  targetPoint,    \* projected target, likewise
  curveType,      \* the curveType argument
  pc,             \* "new", "built" (path drawn), "sampled" (particle placed)
  d,              \* the path's d attribute, or the Three.js curve
  distance,       \* the local distance of the path construction
  arcHeight,      \* the local arcHeight of the path construction
  progress,       \* the progress the particle was last placed at
  particleHeight, \* the local arcHeight of the sampling code
  position,       \* where the particle was last placed
  timeline        \* WorldMap: the points the GSAP timeline visits

vars == <<variant, sourcePoint, targetPoint, curveType, pc, d, distance,
          arcHeight, progress, particleHeight, position, timeline>>

inputs == <<variant, sourcePoint, targetPoint, curveType>>

(***************************************************************************)
(* State of the zoom behaviour.  A d3 transform is <<k, x, y>> and maps    *)
(* the point p to k * p + <<x, y>>.  The stored source and target of an    *)
(* arc are sourcePoint and targetPoint; projection is what the projection  *)
(* does to them (the components never change theirs, the holder of an      *)
(* AnimatedAttackArcs may).                                                *)
(***************************************************************************)
VARIABLES
  projection,          \* the projection, as a transform of the stored points
  transform,           \* event.transform of the last zoom event
  countriesTransform,  \* transform attribute of the group holding the map
  arcsTransform,       \* transform attribute of the group holding the arcs
  strokeWidth,         \* WorldMap: stroke-width style set on every path
  regenerated,         \* the last zoom handler assigned the arc's d
  eventType            \* event.type of the last pointer event on the svg

zoomVars == <<projection, transform, countriesTransform, arcsTransform,
              strokeWidth, regenerated, eventType>>

(***************************************************************************)
(* State of one travelling particle: the clock its frames read, and the    *)
(* progress it was positioned with in its last two frames.                 *)
(***************************************************************************)
VARIABLES
  now,         \* what Date.now() last returned, in ms since the page loaded
  startTime,   \* the startTime of the particle's closure
  duration,    \* its duration
  time,        \* ThreeJSArcs: the time accumulator of the loop
  index,       \* the particle's index i in its batch
  particle,    \* "none", "flying", "waiting" (reset, to restart), "removed"
  frameT,      \* the progress the last frame positioned the particle with
  lastT        \* the progress the frame before it used

particleVars == <<now, startTime, duration, time, index, particle, frameT, lastT>>

(***************************************************************************)
(* State of a mounted component: its attack records, what it has drawn and *)
(* the callbacks it has pending.  A callback or a drawn thing is a pair of *)
(* its kind and the index of the attack it belongs to (0: the component).  *)
(***************************************************************************)
VARIABLES
  attacks,          \* per attack, <<source has coordinates, target has>>
  mounted,          \* "no", "yes", "cleaned" (the effect cleanup has run)
  timeouts,         \* pending setTimeout callbacks
  intervals,        \* active setInterval timers
  rafs,             \* requestAnimationFrame chains with a callback pending
  drawn,            \* paths, circles, lines and meshes in the DOM or scene
  particleInterval, \* the __particleInterval property of the arcs group
  activeAttacks,    \* LiveThreatMap: the activeAttacks state
  late              \* what ran after the cleanup

mountVars == <<attacks, mounted, timeouts, intervals, rafs, drawn,
               particleInterval, activeAttacks, late>>

(***************************************************************************)
(* State of an AnimatedAttackArcs object.  An arc instance is <<id, s>>,   *)
(* the s-th arc added; its path, timers and frame loops are in drawn,      *)
(* timeouts, intervals and rafs under that key, a particle under           *)
(* <<id, s, n>> for its particleId n.                                      *)
(***************************************************************************)
VARIABLES
  arcs,         \* this.arcs: id -> the instance number s of its arc
  serial,       \* how many arcs addArc has created
  particleIds,  \* id -> the particleId counter of its arc's closure
  stored,       \* id -> <<source, target, curveType>> of the entry in this.arcs
  pathD,        \* id -> the d attribute of the entry's path element
  lastOp        \* the method called last, its id and the ids registered before

registryVars == <<arcs, serial, particleIds, stored, pathD, lastOp>>

(***************************************************************************)
(* State of the two live feeds.  LiveThreatMap: its activeAttacks list, an *)
(* entry being <<id, n>> for the n-th spawn, of the record id, and the     *)
(* expiry timeouts still pending.  D3AnimatedArcs: its activeAttacks list, *)
(* an entry being <<k, ts>> for record k stamped at time ts (its id is     *)
(* made of both), and the time of the last tick of the simulation.         *)
(***************************************************************************)
VARIABLES
  live_activeAttacks,  \* LiveThreatMap: the activeAttacks state
  live_expiries,       \* LiveThreatMap: spawns whose setTimeout(duration) is pending
  live_spawned,        \* LiveThreatMap: how many attacks spawnAttack has spawned
  d3_activeAttacks,    \* D3AnimatedArcs: the activeAttacks state
  d3_tick,             \* D3AnimatedArcs: Date.now() at the last tick
  d3_ticks,            \* D3AnimatedArcs: how many ticks there were
  threatCount          \* threatData.attacks.length

feedVars == <<live_activeAttacks, live_expiries, live_spawned, d3_activeAttacks,
              d3_tick, d3_ticks, threatCount>>

FeedIdle ==
  /\ live_activeAttacks = << >>
  /\ live_expiries = {}
  /\ live_spawned = 0
  /\ d3_activeAttacks = << >>
  /\ d3_tick = 0
  /\ d3_ticks = 0
  /\ threatCount = 0

lifeVars == <<zoomVars, particleVars, mountVars, registryVars, feedVars>>

zoomRest == <<particleVars, mountVars, registryVars, feedVars>>
particleRest == <<zoomVars, mountVars, registryVars, feedVars>>
mountRest == <<vars, zoomVars, particleVars, registryVars, feedVars>>
feedRest == <<vars, zoomVars, particleVars, mountVars, registryVars>>
registryRest == <<vars, particleVars, attacks, mounted, particleInterval,
                  activeAttacks, transform, countriesTransform, arcsTransform,
                  strokeWidth, regenerated, eventType, feedVars>>

\* A call of a method of AnimatedAttackArcs, as lastOp records it.
Call(op, id) == [op |-> op, id |-> id, before |-> DOMAIN arcs]

RegistryIdle ==
  /\ arcs = [id \in {} |-> 0]
  /\ serial = 0
  /\ particleIds = [id \in {} |-> 0]
  /\ stored = [id \in {} |-> 0]
  /\ pathD = [id \in {} |-> 0]
  /\ lastOp = [op |-> "new", id |-> "", before |-> {}]

MountIdle ==
  /\ attacks = << >>
  /\ mounted = "no"
  /\ timeouts = {}
  /\ intervals = {}
  /\ rafs = {}
  /\ drawn = {}
  /\ particleInterval = NULL
  /\ activeAttacks = {}
  /\ late = {}

\* No particle yet; i is its index in the batch it will be created in.
ParticleIdle(i) ==
  /\ now = 0
  /\ startTime = 0    \* no closure yet: nothing reads it before a spawn sets it
  /\ duration = 0
  /\ time = NULL
  /\ index = i
  /\ particle = "none"
  /\ frameT = NULL
  /\ lastT = NULL

zoomIdentity == <<Num(1), Num(0), Num(0)>>

ZoomIdle ==
  /\ projection = zoomIdentity
  /\ transform = zoomIdentity
  /\ countriesTransform = zoomIdentity
  /\ arcsTransform = zoomIdentity
  /\ strokeWidth = NULL
  /\ regenerated = FALSE
  /\ eventType = "none"

Variants2D == {"D3AnimatedArcs", "SimpleWorldMapGlobe", "SimpleWorldMapCurve",
               "SimpleWorldMapLine", "WorldMap"}

\* The callers of every component but AnimatedAttackArcs draw an arc only
\* when both endpoints project; AnimatedAttackArcs tests that itself.
ArcInit ==
  /\ variant \in Variants2D \cup {"AnimatedAttackArcs", "ThreeJSArcs", "LiveThreatMap"}
  /\ CASE variant = "AnimatedAttackArcs" ->
            /\ sourcePoint \in Points \cup {NULL}
            /\ targetPoint \in Points \cup {NULL}
       [] variant = "ThreeJSArcs" ->
            /\ sourcePoint \in {Scale3(u, ThreeJS_radius) : u \in UnitDirs}
            /\ targetPoint \in {Scale3(u, ThreeJS_radius) : u \in UnitDirs}
       [] variant = "LiveThreatMap" ->
            /\ sourcePoint \in {Scale3(u, Live_radius) : u \in UnitDirs}
            /\ targetPoint \in {Scale3(u, Live_radius) : u \in UnitDirs}
       [] OTHER ->
            /\ sourcePoint \in Points
            /\ targetPoint \in Points
  /\ curveType \in IF variant \in {"AnimatedAttackArcs", "SimpleWorldMapCurve"}
                   THEN CurveTypes ELSE {"globe"}
  /\ pc = "new"
  /\ d = NULL
  /\ distance = NULL
  /\ arcHeight = NULL
  /\ progress = NULL
  /\ particleHeight = NULL
  /\ position = NULL
  /\ timeline = NULL

Init ==
  /\ ArcInit
  /\ ZoomIdle
  /\ ParticleIdle(0)
  /\ MountIdle
  /\ RegistryIdle
  /\ FeedIdle

Built(path, dist, height) ==
  /\ pc' = "built"
  /\ d' = path
  /\ distance' = dist
  /\ arcHeight' = height
  /\ UNCHANGED <<inputs, progress, particleHeight, position, timeline>>
  /\ UNCHANGED lifeVars

Sampled(t, height, pos) ==
  /\ pc' = "sampled"
  /\ progress' = t
  /\ particleHeight' = height
  /\ position' = pos
  /\ UNCHANGED <<inputs, d, distance, arcHeight, timeline>>
  /\ UNCHANGED lifeVars

\* AnimatedAttackArcs.createArcPath
AAA_CreateArcPath ==
  /\ variant = "AnimatedAttackArcs"
  /\ pc = "new"
  /\ IF sourcePoint = NULL \/ targetPoint = NULL
     THEN Built(createArcPath(sourcePoint, targetPoint, curveType), NULL, NULL)
     ELSE Built(createArcPath(sourcePoint, targetPoint, curveType),
                Distance(sourcePoint, targetPoint),
                AAA_arcHeight(Distance(sourcePoint, targetPoint), curveType))

\* AnimatedAttackArcs.getPointAlongArc
AAA_GetPointAlongArc ==
  /\ variant = "AnimatedAttackArcs"
  /\ pc \in {"built", "sampled"}
  /\ \E t \in ProgressSet :
       IF sourcePoint = NULL \/ targetPoint = NULL
       THEN Sampled(t, NULL, getPointAlongArc(sourcePoint, targetPoint, t, curveType))
       ELSE Sampled(t, AAA_sampleHeight(Distance(sourcePoint, targetPoint), curveType),
                    getPointAlongArc(sourcePoint, targetPoint, t, curveType))

\* D3AnimatedArcs: createCurvedArcPath
D3_CreateCurvedArcPath ==
  /\ variant = "D3AnimatedArcs"
  /\ pc = "new"
  /\ Built(createCurvedArcPath(sourcePoint, targetPoint),
           Distance(sourcePoint, targetPoint),
           D3_arcHeight(Distance(sourcePoint, targetPoint)))

\* D3AnimatedArcs: getPointAlongArc
D3_GetPointAlongArc ==
  /\ variant = "D3AnimatedArcs"
  /\ pc \in {"built", "sampled"}
  /\ \E t \in ProgressSet :
       Sampled(t, D3_sampleHeight(Distance(sourcePoint, targetPoint)),
               D3_getPointAlongArc(sourcePoint, targetPoint, t))

\* SimpleWorldMap (cubic globe): createDramaticGlobeArc
Globe_CreateDramaticGlobeArc ==
  /\ variant = "SimpleWorldMapGlobe"
  /\ pc = "new"
  /\ Built(Globe_createDramaticGlobeArc(sourcePoint, targetPoint),
           Distance(sourcePoint, targetPoint),
           Globe_arcHeight(Distance(sourcePoint, targetPoint)))

\* SimpleWorldMap (cubic globe): one frame of the particle's animate
Globe_Animate ==
  /\ variant = "SimpleWorldMapGlobe"
  /\ pc \in {"built", "sampled"}
  /\ \E t \in ProgressSet :
       Sampled(t, Globe_sampleHeight(Distance(sourcePoint, targetPoint)),
               Globe_animate(sourcePoint, targetPoint, t))

\* SimpleWorldMap (curveType): createDramaticGlobeArc
Curve_CreateDramaticGlobeArc ==
  /\ variant = "SimpleWorldMapCurve"
  /\ pc = "new"
  /\ Built(createDramaticGlobeArc(sourcePoint, targetPoint, curveType),
           Distance(sourcePoint, targetPoint),
           Curve_arcHeight(Distance(sourcePoint, targetPoint), curveType))

\* SimpleWorldMap (curveType): getPointAlongArc
Curve_GetPointAlongArc ==
  /\ variant = "SimpleWorldMapCurve"
  /\ pc \in {"built", "sampled"}
  /\ \E t \in ProgressSet :
       Sampled(t, Curve_sampleHeight(Distance(sourcePoint, targetPoint), curveType),
               Curve_getPointAlongArc(sourcePoint, targetPoint, t, curveType))

\* SimpleWorldMap (straight lines): createSimpleArcPath
Line_CreateSimpleArcPath ==
  /\ variant = "SimpleWorldMapLine"
  /\ pc = "new"
  /\ Built(createSimpleArcPath(sourcePoint, targetPoint), NULL, NULL)

\* SimpleWorldMap (straight lines): one frame of the particle's animate
Line_Animate ==
  /\ variant = "SimpleWorldMapLine"
  /\ pc \in {"built", "sampled"}
  /\ \E t \in ProgressSet :
       Sampled(t, NULL, Line_animate(sourcePoint, targetPoint, t))

\* WorldMap: createArcPath
WorldMap_CreateArcPath ==
  /\ variant = "WorldMap"
  /\ pc = "new"
  /\ Built(WorldMap_createArcPath(sourcePoint, targetPoint),
           Distance(sourcePoint, targetPoint),
           WorldMap_arcHeight(Distance(sourcePoint, targetPoint)))

\* WorldMap: addTravelingParticle, which starts the particle at the source
WorldMap_AddTravelingParticle ==
  /\ variant = "WorldMap"
  /\ pc = "built"
  /\ pc' = "sampled"
  /\ particleHeight' = WorldMap_particleHeight(Distance(sourcePoint, targetPoint))
  /\ timeline' = addTravelingParticle(sourcePoint, targetPoint)
  /\ position' = sourcePoint
  /\ UNCHANGED <<inputs, d, distance, arcHeight, progress>>
  /\ UNCHANGED lifeVars

\* WorldMap: the timeline reaches its next point and rotates on (repeat: -1)
WorldMap_TimelineStep ==
  /\ variant = "WorldMap"
  /\ pc = "sampled"
  /\ position' = Head(timeline)
  /\ timeline' = Append(Tail(timeline), Head(timeline))
  /\ UNCHANGED <<inputs, pc, d, distance, arcHeight, progress, particleHeight>>
  /\ UNCHANGED lifeVars

\* ThreeJSArcs: create3DCurvedArc
ThreeJS_Create3DCurvedArc ==
  /\ variant = "ThreeJSArcs"
  /\ pc = "new"
  /\ Built(create3DCurvedArc(sourcePoint, targetPoint),
           DistanceTo(sourcePoint, targetPoint),
           ThreeJS_arcHeight(DistanceTo(sourcePoint, targetPoint)))

\* LiveThreatMap: createLive3DArc (it computes no distance)
Live_CreateLive3DArc ==
  /\ variant = "LiveThreatMap"
  /\ pc = "new"
  /\ Built(createLive3DArc(sourcePoint, targetPoint), NULL, Live_curveHeight)

Next ==
  \/ AAA_CreateArcPath
  \/ AAA_GetPointAlongArc
  \/ D3_CreateCurvedArcPath
  \/ D3_GetPointAlongArc
  \/ Globe_CreateDramaticGlobeArc
  \/ Globe_Animate
  \/ Curve_CreateDramaticGlobeArc
  \/ Curve_GetPointAlongArc
  \/ Line_CreateSimpleArcPath
  \/ Line_Animate
  \/ WorldMap_CreateArcPath
  \/ WorldMap_AddTravelingParticle
  \/ WorldMap_TimelineStep
  \/ ThreeJS_Create3DCurvedArc
  \/ Live_CreateLive3DArc

allVars == <<vars, lifeVars>>

Spec == Init /\ [][Next]_allVars

(***************************************************************************)
(* Zoom: the handlers the components register with d3.zoom, and the        *)
(* updateAllArcPaths of AnimatedAttackArcs.                                *)
(***************************************************************************)
MaxZoomK == 2

D3_width == 1600
D3_height == 1000
Map_width == 1100
Map_height == 750

Apply(tr, p) ==
  IF p = NULL THEN NULL
  ELSE <<Add(Mul(tr[1], p[1]), tr[2]), Add(Mul(tr[1], p[2]), tr[3])>>

\* d3.zoomIdentity.translate(width / 2, height / 2).scale(k)
\*   .translate(-width / 2, -height / 2)
centerTransform_origin(k, width, height) == <<k, Num(0), Num(0)>>

centerTransform(k, width, height) ==
  <<k, Sub(Half(Num(width)), Mul(k, Half(Num(width)))),
       Sub(Half(Num(height)), Mul(k, Half(Num(height))))>>

ZoomScales == {Num(k) : k \in 1 .. MaxZoomK}

\* A wheel event zooms about the pointer: the origin or (GridStep, GridStep).
ZoomEvents ==
  {<<k, Mul(Sub(Num(1), k), Num(c)), Mul(Sub(Num(1), k), Num(c))>> :
     k \in ZoomScales, c \in {0, GridStep}}

Displayed == pc \in {"built", "zoomed"}

\* The handlers that only set the transform of the main group, which holds
\* the map and the arcs.
ZoomMainGroup(event, width, height) ==
  /\ transform' = event
  /\ countriesTransform' = centerTransform(event[1], width, height)
  /\ arcsTransform' = centerTransform(event[1], width, height)
  /\ regenerated' = FALSE
  /\ eventType' = "wheel"
  /\ pc' = "zoomed"
  /\ UNCHANGED <<inputs, d, distance, arcHeight, progress, particleHeight,
                 position, timeline, projection, strokeWidth>>
  /\ UNCHANGED zoomRest

\* D3AnimatedArcs: the zoom handler
D3_Zoom ==
  /\ variant = "D3AnimatedArcs"
  /\ Displayed
  /\ \E event \in ZoomEvents : ZoomMainGroup(event, D3_width, D3_height)

\* SimpleWorldMap (cubic globe): the zoom handler
Globe_Zoom ==
  /\ variant = "SimpleWorldMapGlobe"
  /\ Displayed
  /\ \E event \in ZoomEvents : ZoomMainGroup(event, Map_width, Map_height)

\* SimpleWorldMap (curveType): the zoom handler
Curve_Zoom ==
  /\ variant = "SimpleWorldMapCurve"
  /\ Displayed
  /\ \E event \in ZoomEvents : ZoomMainGroup(event, Map_width, Map_height)

\* SimpleWorldMap (straight lines): updateArcPath
Line_updateArcPath(source, target, proj) ==
  createSimpleArcPath(Apply(proj, source), Apply(proj, target))

\* SimpleWorldMap (straight lines): the zoom handler.  The arcs group is a
\* child of the svg, not of the countries group.
Line_Zoom ==
  /\ variant = "SimpleWorldMapLine"
  /\ Displayed
  /\ \E event \in ZoomEvents :
       /\ transform' = event
       /\ countriesTransform' = event
  /\ d' = Line_updateArcPath(sourcePoint, targetPoint, projection)
  /\ regenerated' = TRUE
  /\ eventType' = "wheel"
  /\ pc' = "zoomed"
  /\ UNCHANGED <<inputs, distance, arcHeight, progress, particleHeight,
                 position, timeline, projection, arcsTransform, strokeWidth>>
  /\ UNCHANGED zoomRest

\* WorldMap: the zoom handler.  The arcs group is a child of the svg.
WorldMap_Zoom ==
  /\ variant = "WorldMap"
  /\ Displayed
  /\ \E event \in ZoomEvents :
       /\ transform' = event
       /\ countriesTransform' = centerTransform(event[1], Map_width, Map_height)
       /\ strokeWidth' = Rat(event[1][2], event[1][1])
  /\ regenerated' = FALSE
  /\ eventType' = "wheel"
  /\ pc' = "zoomed"
  /\ UNCHANGED <<inputs, d, distance, arcHeight, progress, particleHeight,
                 position, timeline, projection, arcsTransform>>
  /\ UNCHANGED zoomRest

\* The holder of an AnimatedAttackArcs changes the projection it passed in.
AAA_ProjectionChange ==
  /\ variant = "AnimatedAttackArcs"
  /\ Displayed
  /\ \E event \in ZoomEvents :
       /\ transform' = event
       /\ projection' = event
       /\ countriesTransform' = zoomIdentity
  /\ pc' = "built"
  /\ UNCHANGED <<inputs, d, distance, arcHeight, progress, particleHeight,
                 position, timeline, arcsTransform, strokeWidth, regenerated,
                 eventType>>
  /\ UNCHANGED zoomRest

\* AnimatedAttackArcs.updateArcPath
AAA_updateArcPath(source, target, ct, proj) ==
  createArcPath(Apply(proj, source), Apply(proj, target), ct)

\* AnimatedAttackArcs.updateAllArcPaths
AAA_UpdateAllArcPaths ==
  /\ variant = "AnimatedAttackArcs"
  /\ Displayed
  /\ d' = AAA_updateArcPath(sourcePoint, targetPoint, curveType, projection)
  /\ regenerated' = TRUE
  /\ pc' = "zoomed"
  /\ UNCHANGED <<inputs, distance, arcHeight, progress, particleHeight,
                 position, timeline, projection, transform, countriesTransform,
                 arcsTransform, strokeWidth, eventType>>
  /\ UNCHANGED zoomRest

\* The filter of the zoom behaviour: event.type === 'wheel' where one is set,
\* and the default of d3.zoom, which lets a primary-button mousedown start a
\* drag, where none is.
zoomFilter(v, type) ==
  IF v = "SimpleWorldMapLine" THEN type \in {"wheel", "mousedown"}
  ELSE type = "wheel"

\* How far a drag moves the pointer, in x and in y.
DragDeltas == {GridStep}

\* A drag on the svg of a component whose filter lets only wheel events
\* through: the zoom behaviour ignores it and the handler does not run.
Filtered_Drag ==
  /\ variant \in {"D3AnimatedArcs", "SimpleWorldMapGlobe", "SimpleWorldMapCurve", "WorldMap"}
  /\ Displayed
  /\ ~zoomFilter(variant, "mousedown")
  /\ eventType' = "mousedown"
  /\ UNCHANGED <<inputs, pc, d, distance, arcHeight, progress, particleHeight,
                 position, timeline, projection, transform, countriesTransform,
                 arcsTransform, strokeWidth, regenerated>>
  /\ UNCHANGED zoomRest

\* SimpleWorldMap (straight lines): a drag.  d3.zoom translates its
\* transform by the movement of the pointer and the handler applies it.
Line_Drag ==
  /\ variant = "SimpleWorldMapLine"
  /\ Displayed
  /\ zoomFilter(variant, "mousedown")
  /\ \E delta \in DragDeltas :
       LET event == <<transform[1], Add(transform[2], Num(delta)),
                      Add(transform[3], Num(delta))>>
       IN  /\ Le(event[2], Num(FarCoord))
           /\ transform' = event
           /\ countriesTransform' = event
  /\ d' = Line_updateArcPath(sourcePoint, targetPoint, projection)
  /\ regenerated' = TRUE
  /\ eventType' = "mousedown"
  /\ pc' = "zoomed"
  /\ UNCHANGED <<inputs, distance, arcHeight, progress, particleHeight,
                 position, timeline, projection, arcsTransform, strokeWidth>>
  /\ UNCHANGED zoomRest

ZoomVariants == Variants2D \cup {"AnimatedAttackArcs"}

\* An arc is displayed only when both of its endpoints project.
ZoomInit ==
  /\ Init
  /\ variant \in ZoomVariants
  /\ sourcePoint # NULL
  /\ targetPoint # NULL

ZoomNext ==
  \/ AAA_CreateArcPath
  \/ D3_CreateCurvedArcPath
  \/ Globe_CreateDramaticGlobeArc
  \/ Curve_CreateDramaticGlobeArc
  \/ Line_CreateSimpleArcPath
  \/ WorldMap_CreateArcPath
  \/ D3_Zoom
  \/ Globe_Zoom
  \/ Curve_Zoom
  \/ Line_Zoom
  \/ WorldMap_Zoom
  \/ AAA_ProjectionChange
  \/ AAA_UpdateAllArcPaths
  \/ Filtered_Drag
  \/ Line_Drag

ZoomSpec == ZoomInit /\ [][ZoomNext]_allVars

(***************************************************************************)
(* Particles: the frame callbacks that move one particle along its arc.    *)
(* Date.now() is taken not to go backwards.  Math.sin is computed in fixed *)
(* point, in units of 1 / TrigRes, from its Taylor polynomial.             *)
(***************************************************************************)
MaxNow == 5000
MaxFrames == 4
TrigRes == 1000

\* How far Date.now() may have moved on when the next callback runs.
ClockSteps == {0, 625, 1250}

Clock == {now + s : s \in {c \in ClockSteps : now + c <= MaxNow}}

ToFix(a) == (a[1] * TrigRes) \div a[2]
FMul(x, y) == (x * y) \div TrigRes
PiFix == ToFix(Rat(355, 113))

SinPoly(y) ==
  LET y2 == FMul(y, y)
      y3 == FMul(y2, y)
      y5 == FMul(y3, y2)
      y7 == FMul(y5, y2)
  IN  y - (y3 \div 6) + (y5 \div 120) - (y7 \div 5040)

\* Math.sin(x) for 0 <= x <= 2 * PI, which never leaves [-1, 1]
Sin(x) ==
  LET f == ToFix(x)
      s == IF 2 * f <= PiFix THEN SinPoly(f)
           ELSE IF 2 * f <= 3 * PiFix THEN SinPoly(PiFix - f)
           ELSE SinPoly(f - 2 * PiFix)
  IN  IF s > TrigRes THEN Num(1)
      ELSE IF s < -TrigRes THEN Num(-1)
      ELSE Rat(s, TrigRes)

Floor(a) == a[1] \div a[2]

\* 1 - Math.pow(1 - progress, 3), with a reversed variant
easeOutCubic_reversed(p) == Sub(Num(1), Pow3(p))

easeOutCubic(p) == Sub(Num(1), Pow3(Sub(Num(1), p)))

\* Math.min(elapsed / duration, 1)
ElapsedProgress(t0, dur, clock) == Min(Rat(clock - t0, dur), Num(1))

\* spawnParticle: the circle is appended at the source, and animate() runs
\* at once, with nothing elapsed.
SpawnParticle(dur, t, pos) ==
  /\ particle = "none"
  /\ \E clock \in Clock : now' = clock /\ startTime' = clock
  /\ duration' = dur
  /\ particle' = "flying"
  /\ frameT' = t
  /\ position' = pos
  /\ UNCHANGED <<time, index, lastT>>
  /\ UNCHANGED <<inputs, pc, d, distance, arcHeight, progress, particleHeight, timeline>>
  /\ UNCHANGED particleRest

\* Math.min(elapsed / duration, 1) of the particle, read at the given clock,
\* with a variant in which every frame takes its own startTime
FrameProgress_restarted(clock) == ElapsedProgress(clock, duration, clock)

FrameProgress(clock) == ElapsedProgress(startTime, duration, clock)

\* A later call of animate by requestAnimationFrame: it positions the
\* particle with t at pos, or removes it.
AnimateFrame(clock, t, pos) ==
  /\ particle = "flying"
  /\ now' = clock
  /\ IF FrameProgress(clock) # Num(1)
     THEN /\ lastT' = frameT
          /\ frameT' = t
          /\ position' = pos
          /\ UNCHANGED particle
     ELSE /\ particle' = "removed"
          /\ UNCHANGED <<lastT, frameT, position>>
  /\ UNCHANGED <<startTime, duration, time, index>>
  /\ UNCHANGED <<inputs, pc, d, distance, arcHeight, progress, particleHeight, timeline>>
  /\ UNCHANGED particleRest

Linear(p) == p

\* AnimatedAttackArcs.addArc: spawnParticle
AAA_SpawnParticle ==
  /\ variant = "AnimatedAttackArcs"
  /\ SpawnParticle(2500, easeOutCubic(Num(0)),
                   getPointAlongArc(sourcePoint, targetPoint, easeOutCubic(Num(0)),
                                    curveType))

\* AnimatedAttackArcs.addArc: animate
AAA_AnimateParticle ==
  /\ variant = "AnimatedAttackArcs"
  /\ \E clock \in Clock :
       LET t == easeOutCubic(FrameProgress(clock))
       IN  AnimateFrame(clock, t, getPointAlongArc(sourcePoint, targetPoint, t, curveType))

\* D3AnimatedArcs: spawnParticle
D3_SpawnParticle ==
  /\ variant = "D3AnimatedArcs"
  /\ SpawnParticle(2000, Num(0), D3_getPointAlongArc(sourcePoint, targetPoint, Num(0)))

\* D3AnimatedArcs: animateParticle (no easing)
D3_AnimateParticle ==
  /\ variant = "D3AnimatedArcs"
  /\ \E clock \in Clock :
       LET t == Linear(FrameProgress(clock))
       IN  AnimateFrame(clock, t, D3_getPointAlongArc(sourcePoint, targetPoint, t))

\* SimpleWorldMap (cubic globe): spawnParticle
Globe_SpawnParticle ==
  /\ variant = "SimpleWorldMapGlobe"
  /\ SpawnParticle(2500, easeOutCubic(Num(0)),
                   Globe_animate(sourcePoint, targetPoint, easeOutCubic(Num(0))))

\* SimpleWorldMap (cubic globe): animate
Globe_AnimateParticle ==
  /\ variant = "SimpleWorldMapGlobe"
  /\ \E clock \in Clock :
       LET t == easeOutCubic(FrameProgress(clock))
       IN  AnimateFrame(clock, t, Globe_animate(sourcePoint, targetPoint, t))

\* SimpleWorldMap (curveType): spawnParticle, which samples 'parabolic'
Curve_SpawnParticle ==
  /\ variant = "SimpleWorldMapCurve"
  /\ SpawnParticle(2500, easeOutCubic(Num(0)),
                   Curve_getPointAlongArc(sourcePoint, targetPoint,
                                          easeOutCubic(Num(0)), "parabolic"))

\* SimpleWorldMap (curveType): animate
Curve_AnimateParticle ==
  /\ variant = "SimpleWorldMapCurve"
  /\ \E clock \in Clock :
       LET t == easeOutCubic(FrameProgress(clock))
       IN  AnimateFrame(clock, t,
                        Curve_getPointAlongArc(sourcePoint, targetPoint, t, "parabolic"))

\* 2000 + Math.random() * 1000
Line_durations == {2000, 2500}

\* SimpleWorldMap (straight lines): animateParticle, at the start and at
\* every restart; it schedules animate and positions nothing.
Line_AnimateParticle ==
  /\ variant = "SimpleWorldMapLine"
  /\ particle \in {"none", "waiting"}
  /\ \E clock \in Clock : now' = clock /\ startTime' = clock
  /\ \E dur \in Line_durations : duration' = dur
  /\ particle' = "flying"
  /\ UNCHANGED <<time, index, frameT, lastT>>
  /\ UNCHANGED <<inputs, pc, d, distance, arcHeight, progress, particleHeight,
                 position, timeline>>
  /\ UNCHANGED particleRest

\* SimpleWorldMap (straight lines): animate.  At the end the same circle is
\* put back on the source and animateParticle is scheduled again.
Line_AnimateFrame ==
  /\ variant = "SimpleWorldMapLine"
  /\ particle = "flying"
  /\ \E clock \in Clock :
       /\ now' = clock
       /\ LET p == ElapsedProgress(startTime, duration, clock)
          IN  IF p # Num(1)
              THEN /\ lastT' = frameT
                   /\ frameT' = easeOutCubic(p)
                   /\ position' = Line_animate(sourcePoint, targetPoint, easeOutCubic(p))
                   /\ UNCHANGED particle
              ELSE /\ particle' = "waiting"
                   /\ position' = sourcePoint
                   /\ UNCHANGED <<lastT, frameT>>
  /\ UNCHANGED <<startTime, duration, time, index>>
  /\ UNCHANGED <<inputs, pc, d, distance, arcHeight, progress, particleHeight, timeline>>
  /\ UNCHANGED particleRest

ThreeJS_particleCount == 3
Live_particleCount == 5
CurvePoints == 50

\* ThreeJSArcs: the progress of particle i at the loop's time
ThreeJS_progress(tm, i) ==
  LET offset == Mul(Rat(i, ThreeJS_particleCount), Mul(Rat(355, 113), Num(2)))
  IN  Half(Add(Sin(Add(tm, offset)), Num(1)))

\* The entry of points the particle is copied to
PointIndex(p) == <<"points", Floor(Mul(p, Num(CurvePoints)))>>

\* ThreeJSArcs: animateParticlesAlongArc and every later call of its animate
ThreeJS_AnimateParticlesAlongArc ==
  /\ variant = "ThreeJSArcs"
  /\ particle \in {"none", "flying"}
  /\ LET tm == IF particle = "none" THEN Rat(5, 1000) ELSE Add(time, Rat(5, 1000))
     IN  /\ Le(tm, Rat(5 * MaxFrames, 1000))
         /\ time' = tm
         /\ lastT' = frameT
         /\ frameT' = ThreeJS_progress(tm, index)
         /\ position' = PointIndex(ThreeJS_progress(tm, index))
  /\ particle' = "flying"
  /\ UNCHANGED <<now, startTime, duration, index>>
  /\ UNCHANGED <<inputs, pc, d, distance, arcHeight, progress, particleHeight, timeline>>
  /\ UNCHANGED particleRest

\* 3000 + Math.random() * 4000
Live_durations == {3000, 5000}

\* (progress + offset / (Math.PI * 2)) % 1
Live_particleProgress(p, i) ==
  LET s == Add(p, Rat(i, Live_particleCount))
  IN  Sub(s, Num(Floor(s)))

\* LiveThreatMap: createLiveParticles, which runs animate at once
Live_CreateLiveParticles ==
  /\ variant = "LiveThreatMap"
  /\ \E dur \in Live_durations :
       SpawnParticle(dur, Live_particleProgress(Num(0), index),
                     PointIndex(Live_particleProgress(Num(0), index)))

\* LiveThreatMap: animate (elapsed / duration is not capped)
Live_AnimateParticles ==
  /\ variant = "LiveThreatMap"
  /\ \E clock \in Clock :
       LET t == Live_particleProgress(FrameProgress(clock), index)
       IN  AnimateFrame(clock, t, PointIndex(t))

ParticleVariants ==
  {"AnimatedAttackArcs", "D3AnimatedArcs", "SimpleWorldMapGlobe", "SimpleWorldMapCurve",
   "SimpleWorldMapLine", "ThreeJSArcs", "LiveThreatMap"}

\* A particle of a drawn arc that starts at the origin; a batch of the
\* Three.js components has particleCount particles.
ParticleInit ==
  /\ ArcInit
  /\ ZoomIdle
  /\ \E i \in 0 .. Live_particleCount - 1 :
       /\ i = 0 \/ variant = "LiveThreatMap"
            \/ (variant = "ThreeJSArcs" /\ i < ThreeJS_particleCount)
       /\ ParticleIdle(i)
  /\ MountIdle
  /\ RegistryIdle
  /\ FeedIdle
  /\ variant \in ParticleVariants
  /\ sourcePoint # NULL
  /\ targetPoint # NULL
  /\ variant \in Variants2D \cup {"AnimatedAttackArcs"} =>
       /\ sourcePoint = <<Num(0), Num(0)>>
       /\ targetPoint \in {<<Num(GridStep), Num(0)>>, <<Num(0), Num(GridStep)>>}

ParticleNext ==
  \/ AAA_SpawnParticle
  \/ AAA_AnimateParticle
  \/ D3_SpawnParticle
  \/ D3_AnimateParticle
  \/ Globe_SpawnParticle
  \/ Globe_AnimateParticle
  \/ Curve_SpawnParticle
  \/ Curve_AnimateParticle
  \/ Line_AnimateParticle
  \/ Line_AnimateFrame
  \/ ThreeJS_AnimateParticlesAlongArc
  \/ Live_CreateLiveParticles
  \/ Live_AnimateParticles

ParticleSpec == ParticleInit /\ [][ParticleNext]_allVars

\* requestAnimationFrame runs the callback it was given in a later frame,
\* at a later time, for as long as frames are produced.  While a spawned
\* particle flies, its animate callback is the only step that reads the
\* clock, so these are the steps in which the clock moves on.
FrameLater ==
  /\ variant \in {"AnimatedAttackArcs", "D3AnimatedArcs", "SimpleWorldMapGlobe",
                  "SimpleWorldMapCurve"}
  /\ particle = "flying"
  /\ \E clock \in Clock : clock > now /\ now' = clock

ParticleLiveSpec == ParticleSpec /\ WF_now(FrameLater)

(***************************************************************************)
(* Mounting and unmounting: the effects of D3AnimatedArcs, of the two      *)
(* curved SimpleWorldMaps, of ThreeJSArcs and of LiveThreatMap, with the   *)
(* timers and frame loops they start.                                      *)
(***************************************************************************)
MaxAttacks == 2

Resolved(i) == attacks[i][1] /\ attacks[i][2]

ResolvedAttacks_unfiltered == DOMAIN attacks

\* if (sourceCoord && targetCoord) ... if (sourcePoint && targetPoint)
ResolvedAttacks == {i \in DOMAIN attacks : Resolved(i)}

Of(kind, set) == {<<kind, i>> : i \in set}

\* A callback of some kind runs: after the cleanup that is recorded.
Ran(kind) == late' = IF mounted = "cleaned" THEN late \cup {kind} ELSE late

SvgVariants == {"D3AnimatedArcs", "SimpleWorldMapGlobe", "SimpleWorldMapCurve"}

\* The effect of an SVG map: for every attack whose endpoints have
\* coordinates and project, a path, the dash animation after index * 200
\* (or 400) ms and the particle stream after index * 300 ms.
Svg_Mount ==
  /\ variant \in SvgVariants
  /\ mounted = "no"
  /\ mounted' = "yes"
  /\ drawn' = Of("path", ResolvedAttacks)
  /\ timeouts' = Of("animateArc", ResolvedAttacks)
                    \cup Of("createParticleStream", ResolvedAttacks)
  /\ UNCHANGED <<attacks, intervals, rafs, particleInterval, activeAttacks, late>>
  /\ UNCHANGED mountRest

\* animateArc and the timeout it sets: each run sets the next one
Svg_AnimateArc ==
  /\ variant \in SvgVariants
  /\ \E i \in DOMAIN attacks :
       /\ <<"animateArc", i>> \in timeouts
       /\ Ran("animateArc")
  /\ UNCHANGED <<attacks, mounted, timeouts, intervals, rafs, drawn,
                 particleInterval, activeAttacks>>
  /\ UNCHANGED mountRest

\* spawnParticle: a circle and its frame loop
SpawnedParticle(i) ==
  /\ drawn' = drawn \cup {<<"particle", i>>}
  /\ rafs' = rafs \cup {<<"particle", i>>}

\* createParticleStream (createParticleAnimation), run by its timeout: the
\* first particle, the interval, and its id stored on the one arcs group
Svg_CreateParticleStream ==
  /\ variant \in SvgVariants
  /\ \E i \in DOMAIN attacks :
       /\ <<"createParticleStream", i>> \in timeouts
       /\ timeouts' = timeouts \ {<<"createParticleStream", i>>}
       /\ SpawnedParticle(i)
       /\ intervals' = intervals \cup {<<"spawnParticle", i>>}
       /\ particleInterval' = <<"spawnParticle", i>>
  /\ Ran("createParticleStream")
  /\ UNCHANGED <<attacks, mounted, activeAttacks>>
  /\ UNCHANGED mountRest

\* spawnParticle, run by its interval
Svg_SpawnParticle ==
  /\ variant \in SvgVariants
  /\ \E i \in DOMAIN attacks :
       /\ <<"spawnParticle", i>> \in intervals
       /\ SpawnedParticle(i)
  /\ Ran("spawnParticle")
  /\ UNCHANGED <<attacks, mounted, timeouts, intervals, particleInterval, activeAttacks>>
  /\ UNCHANGED mountRest

\* The frame loop of a particle: it moves the circle and goes on, or
\* removes it and stops.
Svg_AnimateParticle ==
  /\ variant \in SvgVariants
  /\ \E i \in DOMAIN attacks :
       /\ <<"particle", i>> \in rafs
       /\ \/ UNCHANGED <<rafs, drawn>>
          \/ /\ rafs' = rafs \ {<<"particle", i>>}
             /\ drawn' = drawn \ {<<"particle", i>>}
  /\ Ran("particle")
  /\ UNCHANGED <<attacks, mounted, timeouts, intervals, particleInterval, activeAttacks>>
  /\ UNCHANGED mountRest

\* The effect cleanup of an SVG map.  D3AnimatedArcs only removes the
\* particles and the arcs; the SimpleWorldMaps first clear the interval
\* whose id the arcs group holds.
Svg_Cleanup ==
  /\ variant \in SvgVariants
  /\ mounted = "yes"
  /\ mounted' = "cleaned"
  /\ intervals' = IF variant = "D3AnimatedArcs" \/ particleInterval = NULL
                  THEN intervals
                  ELSE intervals \ {particleInterval}
  /\ drawn' = {}
  /\ UNCHANGED <<attacks, timeouts, rafs, particleInterval, activeAttacks, late>>
  /\ UNCHANGED mountRest

\* ThreeJSArcs: the effect.  A node and its pulse loop for every location
\* with coordinates, a line, its flow loop and its particles for every
\* attack with both, and the render loop.
ThreeJS_Mount ==
  /\ variant = "ThreeJSArcs"
  /\ mounted = "no"
  /\ mounted' = "yes"
  /\ drawn' = Of("line", ResolvedAttacks) \cup Of("particle", ResolvedAttacks)
                 \cup Of("node", {i \in DOMAIN attacks : attacks[i][1] \/ attacks[i][2]})
  /\ rafs' = Of("arcFlow", ResolvedAttacks) \cup Of("particles", ResolvedAttacks)
                \cup Of("nodePulse", {i \in DOMAIN attacks : attacks[i][1] \/ attacks[i][2]})
                \cup {<<"render", 0>>}
  /\ UNCHANGED <<attacks, timeouts, intervals, particleInterval, activeAttacks, late>>
  /\ UNCHANGED mountRest

\* ThreeJSArcs: a frame of any of its loops; each requests the next frame
ThreeJS_Animate ==
  /\ variant = "ThreeJSArcs"
  /\ \E r \in rafs : Ran(r[1])
  /\ UNCHANGED <<attacks, mounted, timeouts, intervals, rafs, drawn,
                 particleInterval, activeAttacks>>
  /\ UNCHANGED mountRest

\* ThreeJSArcs: the effect cleanup cancels the frame of the render loop
ThreeJS_Cleanup ==
  /\ variant = "ThreeJSArcs"
  /\ mounted = "yes"
  /\ mounted' = "cleaned"
  /\ rafs' = rafs \ {<<"render", 0>>}
  /\ UNCHANGED <<attacks, timeouts, intervals, drawn, particleInterval,
                 activeAttacks, late>>
  /\ UNCHANGED mountRest

\* LiveThreatMap: the effect (initializeThreeJS, startLiveAttackSimulation)
Live_Mount ==
  /\ variant = "LiveThreatMap"
  /\ mounted = "no"
  /\ mounted' = "yes"
  /\ rafs' = {<<"render", 0>>}
  /\ intervals' = {<<"spawnAttack", 0>>}
  /\ UNCHANGED <<attacks, timeouts, drawn, particleInterval, activeAttacks, late>>
  /\ UNCHANGED mountRest

\* LiveThreatMap: spawnAttack, run by its interval, with createLive3DArc
Live_SpawnAttack ==
  /\ variant = "LiveThreatMap"
  /\ <<"spawnAttack", 0>> \in intervals
  /\ \E i \in DOMAIN attacks :
       /\ activeAttacks' = activeAttacks \cup {i}
       /\ IF Resolved(i)
          THEN /\ drawn' = drawn \cup {<<"line", i>>, <<"particle", i>>}
               /\ rafs' = rafs \cup {<<"arcFlow", i>>, <<"particles", i>>}
               /\ timeouts' = timeouts \cup {<<"removeArc", i>>, <<"expire", i>>}
          ELSE /\ timeouts' = timeouts \cup {<<"expire", i>>}
               /\ UNCHANGED <<drawn, rafs>>
  /\ Ran("spawnAttack")
  /\ UNCHANGED <<attacks, mounted, intervals, particleInterval>>
  /\ UNCHANGED mountRest

\* LiveThreatMap: the timeouts that drop the attack from activeAttacks and
\* the line from the scene
Live_Timeout ==
  /\ variant = "LiveThreatMap"
  /\ \E tm \in timeouts :
       /\ timeouts' = timeouts \ {tm}
       /\ IF tm[1] = "expire"
          THEN activeAttacks' = activeAttacks \ {tm[2]} /\ UNCHANGED drawn
          ELSE drawn' = drawn \ {<<"line", tm[2]>>} /\ UNCHANGED activeAttacks
       /\ Ran(tm[1])
  /\ UNCHANGED <<attacks, mounted, intervals, rafs, particleInterval>>
  /\ UNCHANGED mountRest

\* LiveThreatMap: a frame of the render loop, of animateLiveArc or of the
\* particles; the last two go on while progress < 1, and the particles are
\* removed at the end.
Live_Animate ==
  /\ variant = "LiveThreatMap"
  /\ \E r \in rafs :
       /\ Ran(r[1])
       /\ \/ UNCHANGED <<rafs, drawn>>
          \/ /\ r[1] # "render"
             /\ rafs' = rafs \ {r}
             /\ drawn' = IF r[1] = "particles" THEN drawn \ {<<"particle", r[2]>>}
                                               ELSE drawn
  /\ UNCHANGED <<attacks, mounted, timeouts, intervals, particleInterval, activeAttacks>>
  /\ UNCHANGED mountRest

\* LiveThreatMap: the effect cleanup cancels the frame of the render loop
\* and clears the spawn interval
Live_Cleanup ==
  /\ variant = "LiveThreatMap"
  /\ mounted = "yes"
  /\ mounted' = "cleaned"
  /\ rafs' = rafs \ {<<"render", 0>>}
  /\ intervals' = intervals \ {<<"spawnAttack", 0>>}
  /\ UNCHANGED <<attacks, timeouts, drawn, particleInterval, activeAttacks, late>>
  /\ UNCHANGED mountRest

\* No single arc is followed.
NoArc ==
  /\ sourcePoint = NULL /\ targetPoint = NULL /\ curveType = "globe"
  /\ pc = "new" /\ d = NULL /\ distance = NULL /\ arcHeight = NULL
  /\ progress = NULL /\ particleHeight = NULL /\ position = NULL
  /\ timeline = NULL

AttackRecords ==
  UNION {[1 .. n -> {<<TRUE, TRUE>>, <<TRUE, FALSE>>, <<FALSE, FALSE>>}] :
           n \in 1 .. MaxAttacks}

MountInit ==
  /\ variant \in SvgVariants \cup {"ThreeJSArcs", "LiveThreatMap"}
  /\ NoArc
  /\ ZoomIdle
  /\ ParticleIdle(0)
  /\ attacks \in AttackRecords
  /\ mounted = "no"
  /\ timeouts = {}
  /\ intervals = {}
  /\ rafs = {}
  /\ drawn = {}
  /\ particleInterval = NULL
  /\ activeAttacks = {}
  /\ late = {}
  /\ RegistryIdle
  /\ FeedIdle

MountNext ==
  \/ Svg_Mount
  \/ Svg_AnimateArc
  \/ Svg_CreateParticleStream
  \/ Svg_SpawnParticle
  \/ Svg_AnimateParticle
  \/ Svg_Cleanup
  \/ ThreeJS_Mount
  \/ ThreeJS_Animate
  \/ ThreeJS_Cleanup
  \/ Live_Mount
  \/ Live_SpawnAttack
  \/ Live_Timeout
  \/ Live_Animate
  \/ Live_Cleanup

MountSpec == MountInit /\ [][MountNext]_allVars

(***************************************************************************)
(* The registry of AnimatedAttackArcs: addArc, removeArc, updateArcPath,   *)
(* updateAllArcPaths and clear, with the timers and loops addArc starts.   *)
(***************************************************************************)
MaxAdds == 3
MaxParticles == 2

ArcIds == {"a", "b"}

Instance(id) == <<id, arcs[id]>>

Registered(inst) == inst[1] \in DOMAIN arcs /\ arcs[inst[1]] = inst[2]

Without(f, id) == [x \in DOMAIN f \ {id} |-> f[x]]

With(f, id, v) == [x \in DOMAIN f \cup {id} |-> IF x = id THEN v ELSE f[x]]

\* A callback of an arc instance runs and sets itself up to run again: for
\* an instance that is no longer registered that is recorded.
RanFor(kind, inst) == late' = IF Registered(inst) THEN late ELSE late \cup {kind}

\* A timer or frame callback, or the holder, acted: no method was called.
Event == [op |-> "event", id |-> "", before |-> {}]

\* The object's Map, its timers and what its arcs group holds.
Registry ==
  [arcs |-> arcs, particleIds |-> particleIds, stored |-> stored, pathD |-> pathD,
   intervals |-> intervals, drawn |-> drawn]

\* AnimatedAttackArcs.removeArc on a registry.  The particles of the arc
\* have the classes attack-particle and <id>-<n>; the selector
\* .attack-particle.<id> matches none of them.
removeArc(reg, id) ==
  IF id \in DOMAIN reg.arcs
  THEN [arcs |-> Without(reg.arcs, id),
        particleIds |-> Without(reg.particleIds, id),
        stored |-> Without(reg.stored, id),
        pathD |-> Without(reg.pathD, id),
        intervals |-> reg.intervals \ {<<"spawnParticle", <<id, reg.arcs[id]>>>>},
        drawn |-> reg.drawn \ {<<"path", <<id, reg.arcs[id]>>>>}]
  ELSE reg

\* removeArc: what is left of the intervals, with a variant that clears none
removeArc_intervals_kept(id) == intervals

removeArc_intervals(id) == removeArc(Registry, id).intervals

\* removeArc: what is left in the arcs group
removeArc_drawn(id) == removeArc(Registry, id).drawn

\* AnimatedAttackArcs.removeArc
AAA_RemoveArc ==
  /\ \E id \in ArcIds :
       /\ intervals' = removeArc_intervals(id)
       /\ drawn' = removeArc_drawn(id)
       /\ arcs' = removeArc(Registry, id).arcs
       /\ particleIds' = removeArc(Registry, id).particleIds
       /\ stored' = removeArc(Registry, id).stored
       /\ pathD' = removeArc(Registry, id).pathD
       /\ lastOp' = Call("removeArc", id)
  /\ UNCHANGED <<serial, timeouts, rafs, late, projection>>
  /\ UNCHANGED registryRest

\* The source and target addArc is called with for an id, as the identity
\* projection places them, and the curveType of its options.
ArcSource(id) == <<Num(0), Num(0)>>

ArcTarget(id) == IF id = "a" THEN <<Num(GridStep), Num(0)>> ELSE <<Num(0), Num(GridStep)>>

ArcCurveType(id) == "globe"

\* addArc: whether the id is registered afterwards, with a variant that
\* registers without looking at the projected points
addArc_registers_unchecked(projects) == TRUE

addArc_registers(projects) == projects

\* AnimatedAttackArcs.addArc: removeArc(id), then, if both endpoints
\* project, the path, animateArc(), spawnParticle() and the interval.
AAA_AddArc ==
  /\ serial < MaxAdds
  /\ \E id \in ArcIds, projects \in BOOLEAN :
       /\ IF addArc_registers(projects)
          THEN LET inst == <<id, serial + 1>>
               IN  /\ serial' = serial + 1
                   /\ drawn' = removeArc_drawn(id)
                                  \cup {<<"path", inst>>, <<"particle", <<id, serial + 1, 0>>>>}
                   /\ timeouts' = timeouts \cup {<<"animateArc", inst>>}
                   /\ rafs' = rafs \cup {<<"particle", <<id, serial + 1, 0>>>>}
                   /\ intervals' = removeArc_intervals(id) \cup {<<"spawnParticle", inst>>}
                   /\ arcs' = With(arcs, id, serial + 1)
                   /\ particleIds' = With(particleIds, id, 1)
                   /\ stored' = With(stored, id, <<ArcSource(id), ArcTarget(id), ArcCurveType(id)>>)
                   /\ pathD' = With(pathD, id,
                                    AAA_updateArcPath(ArcSource(id), ArcTarget(id),
                                                      ArcCurveType(id), projection))
          ELSE /\ intervals' = removeArc_intervals(id)
               /\ drawn' = removeArc_drawn(id)
               /\ arcs' = removeArc(Registry, id).arcs
               /\ particleIds' = removeArc(Registry, id).particleIds
               /\ stored' = removeArc(Registry, id).stored
               /\ pathD' = removeArc(Registry, id).pathD
               /\ UNCHANGED <<serial, timeouts, rafs>>
       /\ lastOp' = Call(IF projects THEN "addArc" ELSE "addArcUnprojectable", id)
  /\ UNCHANGED <<late, projection>>
  /\ UNCHANGED registryRest

\* animateArc, run by its timeout: it sets the next timeout
AAA_AnimateArc ==
  /\ \E tm \in timeouts : RanFor("animateArc", tm[2])
  /\ lastOp' = Event
  /\ UNCHANGED <<timeouts, intervals, rafs, drawn, projection>>
  /\ UNCHANGED <<arcs, serial, particleIds, stored, pathD>>
  /\ UNCHANGED registryRest

\* spawnParticle, run by its interval
AAA_IntervalSpawnParticle ==
  /\ \E iv \in intervals :
       LET id == iv[2][1]
           n == particleIds[id]
       IN  /\ n < MaxParticles
           /\ drawn' = drawn \cup {<<"particle", <<id, iv[2][2], n>>>>}
           /\ rafs' = rafs \cup {<<"particle", <<id, iv[2][2], n>>>>}
           /\ particleIds' = With(particleIds, id, n + 1)
           /\ RanFor("spawnParticle", iv[2])
  /\ lastOp' = Event
  /\ UNCHANGED <<arcs, serial, stored, pathD, timeouts, intervals, projection>>
  /\ UNCHANGED registryRest

\* animate, the frame loop of a particle: it requests the next frame, or
\* removes the particle and stops
AAA_ParticleFrame ==
  /\ \E r \in rafs :
       \/ /\ RanFor("particle", <<r[2][1], r[2][2]>>)
          /\ UNCHANGED <<rafs, drawn>>
       \/ /\ rafs' = rafs \ {r}
          /\ drawn' = drawn \ {r}
          /\ UNCHANGED late
  /\ lastOp' = Event
  /\ UNCHANGED <<timeouts, intervals, projection>>
  /\ UNCHANGED <<arcs, serial, particleIds, stored, pathD>>
  /\ UNCHANGED registryRest

\* The holder rescales the projection it passed to the constructor.
RegistryProjections == {<<k, Num(0), Num(0)>> : k \in ZoomScales}

AAA_SetProjection ==
  /\ \E p \in RegistryProjections \ {projection} : projection' = p
  /\ lastOp' = Event
  /\ UNCHANGED <<timeouts, intervals, rafs, drawn, late>>
  /\ UNCHANGED <<arcs, serial, particleIds, stored, pathD>>
  /\ UNCHANGED registryRest

\* updateArcPath: the d attributes afterwards, with a variant that also
\* draws a path for an id it does not find
updateArcPath_created(reg, id, proj) ==
  With(reg.pathD, id, AAA_updateArcPath(ArcSource(id), ArcTarget(id), ArcCurveType(id), proj))

updateArcPath(reg, id, proj) ==
  IF id \in DOMAIN reg.arcs
  THEN With(reg.pathD, id,
            AAA_updateArcPath(reg.stored[id][1], reg.stored[id][2], reg.stored[id][3], proj))
  ELSE reg.pathD

\* AnimatedAttackArcs.updateArcPath
AAA_UpdateArcPath ==
  /\ \E id \in ArcIds :
       /\ pathD' = updateArcPath(Registry, id, projection)
       /\ lastOp' = Call("updateArcPath", id)
  /\ UNCHANGED <<timeouts, intervals, rafs, drawn, late, projection>>
  /\ UNCHANGED <<arcs, serial, particleIds, stored>>
  /\ UNCHANGED registryRest

\* this.arcs.keys(): a Map keeps insertion order, and addArc always deletes
\* the id before it sets it, so the keys are in order of instance number.
RECURSIVE KeysOf(_)
KeysOf(a) ==
  IF DOMAIN a = {} THEN << >>
  ELSE LET first == CHOOSE id \in DOMAIN a : \A x \in DOMAIN a : a[id] <= a[x]
       IN  <<first>> \o KeysOf(Without(a, first))

\* AnimatedAttackArcs.getArcIds
getArcIds == KeysOf(arcs)

\* this.arcs.forEach(updateArcPath) from entry i of the Map's entry list
RECURSIVE forEach_updateArcPath(_, _, _, _)
forEach_updateArcPath(reg, entries, i, proj) ==
  IF i > Len(entries) THEN reg
  ELSE forEach_updateArcPath([reg EXCEPT !.pathD = updateArcPath(reg, entries[i], proj)],
                             entries, i + 1, proj)

\* AnimatedAttackArcs.updateAllArcPaths
AAA_UpdatePaths ==
  /\ pathD' = forEach_updateArcPath(Registry, KeysOf(arcs), 1, projection).pathD
  /\ lastOp' = Call("updateAllArcPaths", "")
  /\ UNCHANGED <<timeouts, intervals, rafs, drawn, late, projection>>
  /\ UNCHANGED <<arcs, serial, particleIds, stored>>
  /\ UNCHANGED registryRest

\* this.arcs.forEach(removeArc) from entry i of the Map's entry list.  A
\* deleted entry stays in the list as an empty entry, which forEach passes
\* over; the variant is a list that closes up when an entry is deleted.
RECURSIVE forEach_removeArc_shifting(_, _, _)
forEach_removeArc_shifting(reg, entries, i) ==
  IF i > Len(entries) THEN reg
  ELSE LET after == removeArc(reg, entries[i])
       IN  forEach_removeArc_shifting(after, KeysOf(after.arcs), i + 1)

RECURSIVE forEach_removeArc(_, _, _)
forEach_removeArc(reg, entries, i) ==
  IF i > Len(entries) THEN reg
  ELSE IF entries[i] \notin DOMAIN reg.arcs THEN forEach_removeArc(reg, entries, i + 1)
  ELSE forEach_removeArc(removeArc(reg, entries[i]), entries, i + 1)

\* AnimatedAttackArcs.clear: removeArc for every entry forEach visits
clear(reg) == forEach_removeArc(reg, KeysOf(reg.arcs), 1)

AAA_Clear ==
  /\ intervals' = clear(Registry).intervals
  /\ drawn' = clear(Registry).drawn
  /\ arcs' = clear(Registry).arcs
  /\ particleIds' = clear(Registry).particleIds
  /\ stored' = clear(Registry).stored
  /\ pathD' = clear(Registry).pathD
  /\ lastOp' = Call("clear", "")
  /\ UNCHANGED <<serial, timeouts, rafs, late, projection>>
  /\ UNCHANGED registryRest

RegistryInit ==
  /\ variant = "AnimatedAttackArcs"
  /\ NoArc
  /\ ZoomIdle
  /\ ParticleIdle(0)
  /\ MountIdle
  /\ RegistryIdle
  /\ FeedIdle

RegistryNext ==
  \/ AAA_AddArc
  \/ AAA_RemoveArc
  \/ AAA_AnimateArc
  \/ AAA_IntervalSpawnParticle
  \/ AAA_ParticleFrame
  \/ AAA_UpdatePaths
  \/ AAA_Clear

RegistrySpec == RegistryInit /\ [][RegistryNext]_allVars

\* The methods of an AnimatedAttackArcs called in any order under a
\* projection its holder rescales, with the timeout chains and the frame
\* loops of the arcs running, up to the first tick of a spawn interval.
CallNext ==
  \/ AAA_AddArc
  \/ AAA_RemoveArc
  \/ AAA_UpdateArcPath
  \/ AAA_UpdatePaths
  \/ AAA_Clear
  \/ AAA_SetProjection
  \/ AAA_AnimateArc
  \/ AAA_ParticleFrame

CallSpec == RegistryInit /\ [][CallNext]_allVars

(***************************************************************************)
(* LiveThreatMap: the attacks spawnAttack adds to activeAttacks and the    *)
(* timeouts that take them out again.  A timeout fires when the duration   *)
(* of its spawn has elapsed; durations are random, so pending timeouts may *)
(* fire in any order.                                                      *)
(***************************************************************************)
MaxSpawns == 4

\* prev.filter(attack => attack.id !== newAttack.id)
RECURSIVE FilterOutId(_, _)
FilterOutId(list, id) ==
  IF list = << >> THEN << >>
  ELSE IF Head(list)[1] # id THEN <<Head(list)>> \o FilterOutId(Tail(list), id)
  ELSE FilterOutId(Tail(list), id)

\* spawnAttack, run by the spawn interval: a random record of
\* threats.attacks, keeping its id, is appended and its timeout is set.
LiveFeed_SpawnAttack ==
  /\ live_spawned < MaxSpawns
  /\ \E id \in 1 .. threatCount :
       /\ live_activeAttacks' = Append(live_activeAttacks, <<id, live_spawned + 1>>)
       /\ live_expiries' = live_expiries \cup {<<id, live_spawned + 1>>}
  /\ live_spawned' = live_spawned + 1
  /\ UNCHANGED <<d3_activeAttacks, d3_tick, d3_ticks, threatCount>>
  /\ UNCHANGED feedRest

\* The timeout of a spawn, run when its duration has elapsed
LiveFeed_Expire ==
  /\ \E e \in live_expiries :
       /\ live_activeAttacks' = FilterOutId(live_activeAttacks, e[1])
       /\ live_expiries' = live_expiries \ {e}
  /\ UNCHANGED <<live_spawned, d3_activeAttacks, d3_tick, d3_ticks, threatCount>>
  /\ UNCHANGED feedRest

LiveFeedInit ==
  /\ variant = "LiveThreatMap"
  /\ NoArc
  /\ ZoomIdle
  /\ ParticleIdle(0)
  /\ MountIdle
  /\ RegistryIdle
  /\ live_activeAttacks = << >>
  /\ live_expiries = {}
  /\ live_spawned = 0
  /\ d3_activeAttacks = << >>
  /\ d3_tick = 0
  /\ d3_ticks = 0
  /\ threatCount \in 1 .. MaxAttacks

LiveFeedNext ==
  \/ LiveFeed_SpawnAttack
  \/ LiveFeed_Expire

LiveFeedSpec == LiveFeedInit /\ [][LiveFeedNext]_allVars

(***************************************************************************)
(* D3AnimatedArcs: the live simulation, a tick of simulateLiveAttacks      *)
(* every 2 s.  Times are in ms since the component mounted.                *)
(***************************************************************************)
MaxTicks == 4

D3_simulationInterval == 2000
D3_recentWindow == 30000
D3_maxNewAttacks == 5

\* How long after the last tick the next one runs: the interval, or longer
\* when the timer was throttled or the machine slept.
TickSteps == {D3_simulationInterval, 14000, 16000}

\* How long after the tick React runs the updater given to setActiveAttacks.
UpdaterDelays == {0, 2000}

\* Values of Math.random()
RandomSamples == {Rat(0, 1), Rat(3, 10), Rat(9, 10)}

\* threatData.attacks.length: the fixture has at least one record
ThreatCounts == {1, MaxAttacks, D3_maxNewAttacks + 1}

\* threatData.attacks.slice(0, Math.floor(Math.random() * 5) + 1).map(...):
\* record k gets the id `${attack.id}-${Date.now()}-${Math.random()}` and
\* the timestamp of the tick; an entry is <<k, tick>>.
newAttacks(count, random, tick) ==
  LET n == Floor(Mul(random, Num(D3_maxNewAttacks))) + 1
      m == IF n <= count THEN n ELSE count
  IN  [k \in 1 .. m |-> <<k, tick>>]

\* prev.filter(attack => now - new Date(attack.timestamp).getTime() < 30000),
\* with a variant that keeps everything
recent_unfiltered(prev, nowMs) == prev

RECURSIVE recent(_, _)
recent(prev, nowMs) ==
  IF prev = << >> THEN << >>
  ELSE IF nowMs - Head(prev)[2] < D3_recentWindow
       THEN <<Head(prev)>> \o recent(Tail(prev), nowMs)
       ELSE recent(Tail(prev), nowMs)

\* simulateLiveAttacks, run by its interval, with the updater it queues
D3_SimulateLiveAttacks ==
  /\ d3_ticks < MaxTicks
  /\ \E step \in TickSteps, random \in RandomSamples, delay \in UpdaterDelays :
       LET tick == d3_tick + step
       IN  /\ d3_tick' = tick
           /\ d3_activeAttacks' = recent(d3_activeAttacks, tick + delay)
                                    \o newAttacks(threatCount, random, tick)
  /\ d3_ticks' = d3_ticks + 1
  /\ UNCHANGED <<live_activeAttacks, live_expiries, live_spawned, threatCount>>
  /\ UNCHANGED feedRest

SimulationInit ==
  /\ variant = "D3AnimatedArcs"
  /\ NoArc
  /\ ZoomIdle
  /\ ParticleIdle(0)
  /\ MountIdle
  /\ RegistryIdle
  /\ live_activeAttacks = << >>
  /\ live_expiries = {}
  /\ live_spawned = 0
  /\ d3_activeAttacks = << >>
  /\ d3_tick = 0
  /\ d3_ticks = 0
  /\ threatCount \in ThreatCounts

SimulationNext == D3_SimulateLiveAttacks

SimulationSpec == SimulationInit /\ [][SimulationNext]_allVars

(***************************************************************************)
(* Properties.                                                             *)
(***************************************************************************)
\* The components that place a particle by sampling at a progress value.
SamplingVariants == {"AnimatedAttackArcs", "D3AnimatedArcs", "SimpleWorldMapGlobe",
                     "SimpleWorldMapCurve", "SimpleWorldMapLine"}

Projected == sourcePoint # NULL /\ targetPoint # NULL

KindOf(v, ct) ==
  CASE v = "D3AnimatedArcs"      -> "QuadraticGlobe"
    [] v = "SimpleWorldMapGlobe" -> "CubicGlobe"
    [] v = "SimpleWorldMapLine"  -> "Straight"
    [] OTHER -> CASE ct = "great-circle" -> "QuadraticGreatCircle"
                  [] ct = "parabolic"    -> "CubicParabolic"
                  [] OTHER               -> "CubicGlobe"

KindMultiplier(kind) ==
  CASE kind = "QuadraticGreatCircle" -> Rat(3, 10)
    [] kind = "QuadraticGlobe"       -> Rat(4, 10)
    [] kind = "CubicGlobe"           -> Rat(6, 10)
    [] kind = "CubicParabolic"       -> Rat(8, 10)

KindCap(kind) ==
  CASE kind = "QuadraticGreatCircle" -> Num(150)
    [] kind = "QuadraticGlobe"       -> Num(200)
    [] kind = "CubicGlobe"           -> Num(300)
    [] kind = "CubicParabolic"       -> Num(400)

\* The arc height a drawn path carries: midpoint.y - control.y of a quadratic
\* path, (source.y - cp1.y) / 0.3 of a cubic one.
HeightInPath(path) ==
  IF path[4] = "Q"
  THEN Sub(Half(Add(path[3], path[8])), path[6])
  ELSE Mul(Sub(path[3], path[6]), Rat(10, 3))

\* The components whose path builder takes the height from the kind table.
TableVariants == {"AnimatedAttackArcs", "D3AnimatedArcs", "SimpleWorldMapGlobe",
                  "SimpleWorldMapCurve"}

\* C2: the arc height of createArcPath, createDramaticGlobeArc and
\* createCurvedArcPath is min(d * multiplier, cap) with the pair of the curve
\* kind, an unrecognised curveType counting as cubic globe; the drawn path
\* carries that height.
C2_ArcHeightTable ==
  (pc # "new" /\ variant \in TableVariants /\ Projected) =>
    LET kind == KindOf(variant, curveType)
        h    == Min(Mul(distance, KindMultiplier(kind)), KindCap(kind))
    IN  arcHeight = h /\ HeightInPath(d) = h

\* An unrecognised curveType on a pair far enough apart for the cap of 300.
C2_Witness ==
  /\ pc = "built" /\ variant = "AnimatedAttackArcs" /\ curveType = "spiral"
  /\ Projected /\ ~Le(distance, Num(500)) /\ arcHeight = Num(300)

\* The distance between the endpoints of the current arc.
EndpointDistance ==
  IF variant \in {"ThreeJSArcs", "LiveThreatMap"}
  THEN DistanceTo(sourcePoint, targetPoint)
  ELSE Distance(sourcePoint, targetPoint)

\* The call sites that give the arc a height (a straight line has none).
HeightVariants == TableVariants \cup {"WorldMap", "ThreeJSArcs", "LiveThreatMap"}

\* The height cap of a call site: the kind table's, 200 for WorldMap's drawn
\* path and 1.5 for create3DCurvedArc.
SiteCap(v, ct) ==
  CASE v = "WorldMap"    -> Num(200)
    [] v = "ThreeJSArcs" -> Rat(3, 2)
    [] OTHER             -> KindCap(KindOf(v, ct))

\* The height a call site's path builder gives an arc of distance dist.
SiteHeight(v, ct, dist) ==
  CASE v = "AnimatedAttackArcs"  -> AAA_arcHeight(dist, ct)
    [] v = "D3AnimatedArcs"      -> D3_arcHeight(dist)
    [] v = "SimpleWorldMapGlobe" -> Globe_arcHeight(dist)
    [] v = "SimpleWorldMapCurve" -> Curve_arcHeight(dist, ct)
    [] v = "WorldMap"            -> WorldMap_arcHeight(dist)
    [] v = "ThreeJSArcs"         -> ThreeJS_arcHeight(dist)
    [] v = "LiveThreatMap"       -> Live_curveHeight

\* Distances to compare the current one with.
TestDistances ==
  {Distance(p, q) : p \in {<<Num(0), Num(0)>>}, q \in Points}
    \cup {DistanceTo(Scale3(u, ThreeJS_radius), Scale3(v, ThreeJS_radius)) :
            u \in UnitDirs, v \in UnitDirs}

\* The height is at least 0 and at most cap, 0 at distance 0, and no smaller
\* at any larger distance.
SaturatingAt(v, ct, dist, h, cap) ==
  /\ Le(Num(0), h) /\ Le(h, cap)
  /\ (dist = Num(0) => h = Num(0))
  /\ \A d2 \in TestDistances : Le(dist, d2) => Le(h, SiteHeight(v, ct, d2))

\* C3 as stated: at every arc-building call site, the Three.js ones included,
\* the arc height is 0 when the endpoints coincide.
C3_Original ==
  (pc = "built" /\ variant \in HeightVariants /\ Projected
     /\ EndpointDistance = Num(0)) => arcHeight = Num(0)

\* C3 (amended): at every SVG call site and in create3DCurvedArc the arc height
\* is a saturating linear function of the distance: within 0 .. cap, 0 at
\* distance 0 and non-decreasing; createLive3DArc gives every arc the height 3,
\* whatever the distance.
C3_SaturatingHeight ==
  (pc = "built" /\ variant \in HeightVariants /\ Projected) =>
    IF variant = "LiveThreatMap"
    THEN arcHeight = Num(3) /\ d[3][2] = Add(Half(Add(sourcePoint[2], targetPoint[2])), Num(3))
    ELSE /\ distance = EndpointDistance
         /\ SaturatingAt(variant, curveType, distance, arcHeight,
                         SiteCap(variant, curveType))

\* A Three.js arc long enough for the cap of 1.5.
C3_Witness ==
  /\ pc = "built" /\ variant = "ThreeJSArcs"
  /\ ~Le(distance, Rat(15, 8)) /\ arcHeight = Rat(3, 2)

\* The control points a drawn path carries.
ControlPoints(path) ==
  CASE path = << >>  -> << >>
    [] path[4] = "Q" -> << <<path[5], path[6]>> >>
    [] path[4] = "C" -> << <<path[5], path[6]>>, <<path[7], path[8]>> >>
    [] path[4] = "L" -> << >>

Midpoint(p, q) == <<Half(Add(p[1], q[1])), Half(Add(p[2], q[2]))>>

\* C4: path construction and progress sampling agree on every arc: the sampling
\* code uses the arc height of the drawn path, and the point WorldMap's particle
\* timeline bends through is the control point of the drawn path.
C4_PathSamplingConsistent ==
  (pc = "sampled" /\ Projected
     /\ variant \in (SamplingVariants \ {"SimpleWorldMapLine"}) \cup {"WorldMap"}) =>
    /\ particleHeight = arcHeight
    /\ (variant = "WorldMap" =>
          \E i \in 1 .. Len(timeline) : <<timeline[i]>> = ControlPoints(d))

\* C5 as stated: both coordinates of cp1 and cp2 are blended half way toward
\* the midpoint and the y coordinate is then raised by 0.3 * h.
C5_Original ==
  (pc = "built" /\ Projected /\ d # << >> /\ d[4] = "C") =>
    LET m == Midpoint(sourcePoint, targetPoint)
        h == Mul(arcHeight, Rat(3, 10))
    IN  ControlPoints(d) =
          << <<Add(sourcePoint[1], Half(Sub(m[1], sourcePoint[1]))),
               Sub(Add(sourcePoint[2], Half(Sub(m[2], sourcePoint[2]))), h)>>,
             <<Sub(targetPoint[1], Half(Sub(targetPoint[1], m[1]))),
               Sub(Sub(targetPoint[2], Half(Sub(targetPoint[2], m[2]))), h)>> >>

\* C5 (amended): for the cubic kinds, cp1.x = source.x + 0.5 * (midpoint.x -
\* source.x) and cp2.x = target.x - 0.5 * (target.x - midpoint.x), while the y
\* coordinates are not blended: cp1.y = source.y - 0.3 * h and cp2.y =
\* target.y - 0.3 * h.
C5_CubicControlPoints ==
  (pc = "built" /\ Projected /\ d # << >> /\ d[4] = "C") =>
    LET m == Midpoint(sourcePoint, targetPoint)
        h == Mul(arcHeight, Rat(3, 10))
    IN  ControlPoints(d) =
          << <<Add(sourcePoint[1], Half(Sub(m[1], sourcePoint[1]))),
               Sub(sourcePoint[2], h)>>,
             <<Sub(targetPoint[1], Half(Sub(targetPoint[1], m[1]))),
               Sub(targetPoint[2], h)>> >>

\* A cubic arc whose endpoints differ in y, the case where blending matters.
C5_Witness ==
  /\ pc = "built" /\ variant = "SimpleWorldMapGlobe" /\ d[4] = "C"
  /\ sourcePoint[2] # targetPoint[2] /\ sourcePoint[1] # targetPoint[1]

Lerp(a, b, t) == Add(Mul(Sub(Num(1), t), a), Mul(t, b))
Bezier2(p0, c, p1, t) ==
  <<Lerp(Lerp(p0[1], c[1], t), Lerp(c[1], p1[1], t), t),
    Lerp(Lerp(p0[2], c[2], t), Lerp(c[2], p1[2], t), t)>>

\* The call sites that sample a quadratic curve.
QuadraticSampled ==
  /\ pc = "sampled" /\ Projected
  /\ \/ variant = "D3AnimatedArcs"
     \/ /\ variant \in {"AnimatedAttackArcs", "SimpleWorldMapCurve"}
        /\ curveType = "great-circle"

\* C7: quadratic sampling is the quadratic Bezier curve of (source, control,
\* target), the control point being the drawn path's; for source (0,0), target
\* (100,0) and kind great-circle the height is 30, the control point (50,-30)
\* and the sample at 1/2 is (50,-15).
C7_QuadraticBezier ==
  QuadraticSampled =>
    /\ position = Bezier2(sourcePoint, ControlPoints(d)[1], targetPoint, progress)
    /\ (/\ variant # "D3AnimatedArcs"
        /\ sourcePoint = <<Num(0), Num(0)>>
        /\ targetPoint = <<Num(100), Num(0)>>) =>
          /\ arcHeight = Num(30)
          /\ ControlPoints(d) = << <<Num(50), Num(-30)>> >>
          /\ (progress = Rat(1, 2) => position = <<Num(50), Num(-15)>>)

\* The example of the claim, sampled at 1/2.
C7_Witness ==
  /\ QuadraticSampled /\ variant = "AnimatedAttackArcs"
  /\ sourcePoint = <<Num(0), Num(0)>> /\ targetPoint = <<Num(100), Num(0)>>
  /\ progress = Rat(1, 2) /\ position = <<Num(50), Num(-15)>>

\* What a call site's sampling code returns for the given endpoints.
SampleOf(v, ct, s, e, t) ==
  CASE v = "AnimatedAttackArcs"  -> getPointAlongArc(s, e, t, ct)
    [] v = "D3AnimatedArcs"      -> D3_getPointAlongArc(s, e, t)
    [] v = "SimpleWorldMapGlobe" -> Globe_animate(s, e, t)
    [] v = "SimpleWorldMapCurve" -> Curve_getPointAlongArc(s, e, t, ct)
    [] v = "SimpleWorldMapLine"  -> Line_animate(s, e, t)

\* C8: for the quadratic and straight kinds, the sample of (source, target) at
\* t is the sample of (target, source) at 1 - t.
C8_Symmetry ==
  (QuadraticSampled \/ (pc = "sampled" /\ variant = "SimpleWorldMapLine")) =>
    position = SampleOf(variant, curveType, targetPoint, sourcePoint,
                        Sub(Num(1), progress))

\* A quadratic arc between points that differ in both coordinates, sampled off
\* the middle.
C8_Witness ==
  /\ QuadraticSampled /\ variant = "D3AnimatedArcs"
  /\ sourcePoint[1] # targetPoint[1] /\ sourcePoint[2] # targetPoint[2]
  /\ progress = Rat(1, 4)

\* C9: when source equals target, distance and height are 0, every control
\* point is that point, and every sample is that point, for every curve kind.
C9_Degenerate ==
  (pc # "new" /\ variant \in SamplingVariants /\ Projected
     /\ sourcePoint = targetPoint) =>
    /\ variant # "SimpleWorldMapLine" => distance = Num(0) /\ arcHeight = Num(0)
    /\ \A i \in 1 .. Len(ControlPoints(d)) : ControlPoints(d)[i] = sourcePoint
    /\ pc = "sampled" =>
         /\ position = sourcePoint
         /\ variant # "SimpleWorldMapLine" => particleHeight = Num(0)

\* A cubic arc from a point to itself, sampled strictly inside (0, 1).
C9_Witness ==
  /\ pc = "sampled" /\ variant = "AnimatedAttackArcs" /\ curveType = "globe"
  /\ Projected /\ sourcePoint = targetPoint /\ sourcePoint # <<Num(0), Num(0)>>
  /\ progress = Rat(1, 2) /\ position = sourcePoint

\* C10: the straight kind's sample is the point dividing the segment from
\* source to target in the ratio t : 1 - t; at 1/2 it is the midpoint.
C10_StraightMidpoint ==
  (pc = "sampled" /\ variant = "SimpleWorldMapLine") =>
    /\ position = <<Lerp(sourcePoint[1], targetPoint[1], progress),
                    Lerp(sourcePoint[2], targetPoint[2], progress)>>
    /\ progress = Rat(1, 2) => position = Midpoint(sourcePoint, targetPoint)

\* A straight arc between different points sampled at 1/2.
C10_Witness ==
  /\ pc = "sampled" /\ variant = "SimpleWorldMapLine"
  /\ sourcePoint[1] # targetPoint[1] /\ sourcePoint[2] # targetPoint[2]
  /\ progress = Rat(1, 2) /\ position = Midpoint(sourcePoint, targetPoint)

\* The cubic Bezier point by de Casteljau's construction.
Bezier3(p0, c1, c2, p1, t) ==
  Bezier2(<<Lerp(p0[1], c1[1], t), Lerp(p0[2], c1[2], t)>>,
          <<Lerp(c1[1], c2[1], t), Lerp(c1[2], c2[2], t)>>,
          <<Lerp(c2[1], p1[1], t), Lerp(c2[2], p1[2], t)>>, t)

\* The point at t of the curve a drawn path describes, t not clamped.
PointOfPath(path, t) ==
  LET s  == <<path[2], path[3]>>
      cp == ControlPoints(path)
  IN  CASE path[4] = "Q" -> Bezier2(s, cp[1], <<path[7], path[8]>>, t)
        [] path[4] = "C" -> Bezier3(s, cp[1], cp[2], <<path[9], path[10]>>, t)
        [] path[4] = "L" -> <<Lerp(s[1], path[5], t), Lerp(s[2], path[6], t)>>

Outside(t) == ~Le(Num(0), t) \/ ~Le(t, Num(1))

\* C11 as stated: on every arc whose endpoints differ, a sample at t > 1 is
\* not the target and a sample at t < 0 is not the source.
C11_Original ==
  (pc = "sampled" /\ variant \in SamplingVariants /\ Projected
     /\ sourcePoint # targetPoint) =>
    /\ (~Le(progress, Num(1)) => position # targetPoint)
    /\ (~Le(Num(0), progress) => position # sourcePoint)

\* C11 (amended): the sampling code does not clamp the progress: for t outside
\* [0,1] the sample is the value at t of the same polynomial, the curve of the
\* drawn path extended; on an arc whose endpoints differ in x the sample for
\* t > 1 is not the target and the sample for t < 0 is not the source.
C11_NoClamping ==
  (pc = "sampled" /\ variant \in SamplingVariants /\ Projected /\ Outside(progress)) =>
    /\ position = PointOfPath(d, progress)
    /\ sourcePoint[1] # targetPoint[1] =>
         /\ (~Le(progress, Num(1)) => position # targetPoint)
         /\ (~Le(Num(0), progress) => position # sourcePoint)

\* A cubic arc sampled beyond 1, past its target.
C11_Witness ==
  /\ pc = "sampled" /\ variant = "AnimatedAttackArcs" /\ curveType = "parabolic"
  /\ Projected /\ sourcePoint[1] # targetPoint[1]
  /\ progress = Rat(5, 3) /\ position # targetPoint
  /\ ~Le(position[1], targetPoint[1])

(***************************************************************************)
(* C12: on a zoom event every displayed arc has its d regenerated from its *)
(* stored source and target under the mapping the map is now shown with:   *)
(* after the handler the arc's group carries no transform and d equals the *)
(* path built from where the source and the target are shown.              *)
(***************************************************************************)
PathOf(v, ct, s, e) ==
  CASE v = "AnimatedAttackArcs" -> createArcPath(s, e, ct)
    [] v = "D3AnimatedArcs" -> createCurvedArcPath(s, e)
    [] v = "SimpleWorldMapGlobe" -> Globe_createDramaticGlobeArc(s, e)
    [] v = "SimpleWorldMapCurve" -> createDramaticGlobeArc(s, e, ct)
    [] v = "SimpleWorldMapLine" -> createSimpleArcPath(s, e)
    [] v = "WorldMap" -> WorldMap_createArcPath(s, e)

Shown(p) == Apply(countriesTransform, Apply(projection, p))

C12_Regenerated ==
  pc = "zoomed" =>
    /\ regenerated
    /\ arcsTransform = zoomIdentity
    /\ d = PathOf(variant, curveType, Shown(sourcePoint), Shown(targetPoint))

(***************************************************************************)
(* C13: the progress a particle is positioned with never decreases from    *)
(* one frame to the next and stays within [0, 1], in every variant.        *)
(***************************************************************************)
InUnit(t) == Le(Num(0), t) /\ Le(t, Num(1))

C13_Original ==
  (frameT # NULL /\ lastT # NULL) => (Le(lastT, frameT) /\ InUnit(frameT))

\* The particles that are spawned, fly once and are removed
OneShotVariants ==
  {"AnimatedAttackArcs", "D3AnimatedArcs", "SimpleWorldMapGlobe", "SimpleWorldMapCurve"}

\* C13, amended: every progress used is within [0, 1]; it never decreases
\* from frame to frame for the particles that fly once (the other variants
\* restart, oscillate or wrap around).
C13_OneShotMonotone ==
  frameT # NULL =>
    /\ InUnit(frameT)
    /\ (variant \in OneShotVariants /\ lastT # NULL) =>
         (Le(lastT, frameT) /\ frameT # Num(1))

C13_Witness ==
  /\ variant = "AnimatedAttackArcs" /\ particle = "flying"
  /\ lastT = Rat(37, 64) /\ frameT = Rat(63, 64)
  /\ now - startTime = 1875

(***************************************************************************)
(* C14: for an attack whose source or target has no coordinates no path,   *)
(* no particle, no timer and no interval is created, and the other attacks *)
(* are still rendered.                                                     *)
(***************************************************************************)
Pending == timeouts \cup intervals \cup rafs

ArcKinds == {"path", "line", "particle", "animateArc", "createParticleStream",
             "spawnParticle", "arcFlow", "particles", "removeArc", "expire"}

NothingFor(i, kinds) == \A k \in kinds : <<k, i>> \notin drawn \cup Pending

OthersRendered ==
  (mounted = "yes" /\ variant # "LiveThreatMap") =>
    \A i \in ResolvedAttacks : <<"path", i>> \in drawn \/ <<"line", i>> \in drawn

C14_Original ==
  /\ \A i \in DOMAIN attacks : ~Resolved(i) => NothingFor(i, ArcKinds)
  /\ OthersRendered

\* C14, amended: nothing is drawn or animated for such an attack, but
\* LiveThreatMap still records it and sets the timeout that expires it.
C14_Filtered ==
  /\ \A i \in DOMAIN attacks :
       ~Resolved(i) =>
         /\ NothingFor(i, ArcKinds \ {"expire"})
         /\ variant # "LiveThreatMap" => NothingFor(i, {"expire"}) /\ i \notin activeAttacks
  /\ OthersRendered

C14_Witness ==
  /\ variant = "LiveThreatMap"
  /\ \E i, j \in DOMAIN attacks :
       /\ ~Resolved(i) /\ <<"expire", i>> \in timeouts /\ i \in activeAttacks
       /\ Resolved(j) /\ <<"line", j>> \in drawn /\ <<"particles", j>> \in rafs

(***************************************************************************)
(* C16: once the effect cleanup of an SVG map has run, no particle-spawn   *)
(* interval of the component is active, however many attacks there are and *)
(* whenever the cleanup runs relative to the staggered starts.             *)
(***************************************************************************)
C16_IntervalsCleared ==
  (variant \in SvgVariants /\ mounted = "cleaned") =>
    \A i \in DOMAIN attacks : <<"spawnParticle", i>> \notin intervals

(***************************************************************************)
(* C17: once the effect cleanup of ThreeJSArcs or LiveThreatMap has run,   *)
(* none of the component's frame loops and timeouts runs any more.         *)
(***************************************************************************)
C17_LoopsStopped ==
  variant \in {"ThreeJSArcs", "LiveThreatMap"} => late = {}

(***************************************************************************)
(* C15: after removeArc(id) no callback of that arc is rescheduled any     *)
(* more: not the spawn interval, not the timeout chain of animateArc, not  *)
(* the frame loops of its particles.                                       *)
(***************************************************************************)
C15_AnimationStopped ==
  late \cap {"spawnParticle", "animateArc", "particle"} = {}

(***************************************************************************)
(* C19: every registered arc owns exactly one path in the arcs group and   *)
(* exactly one active spawn interval, and there are as many active spawn   *)
(* intervals as registered arcs.                                           *)
(***************************************************************************)
PathsOf(id) == {e \in drawn : e[1] = "path" /\ e[2][1] = id}

C19_Registry ==
  /\ \A id \in DOMAIN arcs :
       /\ PathsOf(id) = {<<"path", Instance(id)>>}
       /\ {iv \in intervals : iv[2][1] = id} = {<<"spawnParticle", Instance(id)>>}
  /\ Cardinality(intervals) = Cardinality(DOMAIN arcs)
  /\ \A id \in ArcIds \ DOMAIN arcs : PathsOf(id) = {}

C19_Witness ==
  /\ DOMAIN arcs = ArcIds
  /\ arcs["a"] = MaxAdds
  /\ Cardinality(intervals) = 2
  /\ <<"animateArc", <<"a", 1>>>> \in timeouts

(***************************************************************************)
(* C20: when removeArc(id) returns, neither the path of the arc nor any    *)
(* particle spawned for id is left in the arcs group, and arcs no longer   *)
(* contains id.                                                            *)
(***************************************************************************)
C20_RemovesEverything ==
  [][\A id \in ArcIds :
       (id \in DOMAIN arcs /\ id \notin DOMAIN arcs') =>
         \A e \in drawn' : e[2][1] # id]_allVars

(***************************************************************************)
(* C18: createArcPath and getPointAlongArc of AnimatedAttackArcs always    *)
(* return a value, and for every t in [0, 1] getPointAlongArc returns a    *)
(* point on the arc between the projected source and target, also when an  *)
(* endpoint does not project.                                              *)
(***************************************************************************)
C18_Original ==
  (variant = "AnimatedAttackArcs" /\ pc = "sampled" /\ InUnit(progress)) =>
    /\ d # NULL
    /\ position = PointOfPath(d, progress)

\* C18, amended: when an endpoint does not project the path is the empty
\* string and the sample is [0, 0]; otherwise the path is a curve between
\* the projected endpoints and the sample at t in [0, 1] is its point at t.
C18_AlwaysValue ==
  (variant = "AnimatedAttackArcs" /\ pc \in {"built", "sampled"}) =>
    IF Projected
    THEN /\ d # NULL
         /\ <<d[2], d[3]>> = sourcePoint
         /\ <<d[Len(d) - 1], d[Len(d)]>> = targetPoint
         /\ (pc = "sampled" /\ InUnit(progress)) => position = PointOfPath(d, progress)
    ELSE /\ d = NULL
         /\ pc = "sampled" => position = <<Num(0), Num(0)>>

C18_Witness ==
  /\ variant = "AnimatedAttackArcs" /\ pc = "sampled"
  /\ sourcePoint # NULL /\ targetPoint = NULL
  /\ progress = Rat(1, 2)
  /\ d = NULL /\ position = <<Num(0), Num(0)>>

\* C21: addArc with an endpoint the projection has no point for registers
\* nothing and starts nothing: it creates no arc, no timer and no frame
\* loop, and afterwards the id is unregistered, also when an arc was
\* registered under it before the call: the id is not in arcs, getArcIds()
\* does not list it, and it has no stored data, path or spawn interval.
C21_UnprojectableUnregisters ==
  [][lastOp'.op = "addArcUnprojectable" =>
       /\ lastOp'.id \notin DOMAIN arcs'
       /\ lastOp'.id \notin DOMAIN stored'
       /\ lastOp'.id \notin DOMAIN pathD'
       /\ \A iv \in intervals' : iv[2][1] # lastOp'.id
       /\ \A e \in drawn' : e[1] = "path" => e[2][1] # lastOp'.id
       /\ DOMAIN arcs' = DOMAIN arcs \ {lastOp'.id}
       /\ intervals' \subseteq intervals
       /\ timeouts' = timeouts
       /\ rafs' = rafs
       /\ serial' = serial
       /\ drawn' \subseteq drawn]_allVars

\* The id was registered when addArc was called with the unprojectable
\* endpoint, and another arc is still registered.
C21_Witness ==
  /\ lastOp.op = "addArcUnprojectable"
  /\ lastOp.id \in lastOp.before
  /\ DOMAIN arcs # {}

\* C22: when clear() has returned, arcs is empty and getArcIds() returns an
\* empty array, no arc path is left in the arcs group and no particle-spawn
\* interval is active, however many arcs were registered.
C22_ClearRemovesAll ==
  lastOp.op = "clear" =>
    /\ DOMAIN arcs = {}
    /\ getArcIds = << >>
    /\ DOMAIN stored = {}
    /\ DOMAIN pathD = {}
    /\ \A e \in drawn : e[1] # "path"
    /\ intervals = {}

\* clear() has returned and every id was registered when it was called.
C22_Witness ==
  /\ lastOp.op = "clear"
  /\ lastOp.before = ArcIds
  /\ DOMAIN arcs = {}

\* What a method of the object can change, the d attributes aside.
RegistryFrame ==
  <<arcs, serial, particleIds, stored, intervals, timeouts, rafs, drawn,
    late, projection>>

\* C23: updateArcPath(id) and updateAllArcPaths() assign the d attribute of
\* registered paths and change nothing else: the ids in arcs, the stored
\* source, target, options and interval of each arc, the timers, the frame
\* loops and the elements of the arcs group stay as they are, and
\* updateArcPath(id) leaves the d of every other arc alone.  updateArcPath
\* and removeArc with an id that is not in arcs change nothing at all.
C23_OnlyD ==
  [][/\ lastOp'.op \in {"updateArcPath", "updateAllArcPaths"} =>
          /\ UNCHANGED RegistryFrame
          /\ DOMAIN pathD' = DOMAIN pathD
          /\ lastOp'.op = "updateArcPath" =>
               \A x \in DOMAIN pathD \ {lastOp'.id} : pathD'[x] = pathD[x]
     /\ (lastOp'.op \in {"updateArcPath", "removeArc"} /\ lastOp'.id \notin DOMAIN arcs) =>
          /\ UNCHANGED RegistryFrame
          /\ pathD' = pathD]_allVars

\* updateAllArcPaths() has run under a rescaled projection with both ids
\* registered, their spawn intervals active, and has given a path another d
\* than the identity projection gives it.
C23_Witness ==
  /\ lastOp.op = "updateAllArcPaths"
  /\ lastOp.before = ArcIds
  /\ projection # zoomIdentity
  /\ Cardinality(intervals) = 2
  /\ \A id \in ArcIds :
       /\ pathD[id] = AAA_updateArcPath(stored[id][1], stored[id][2], stored[id][3], projection)
       /\ pathD[id] # AAA_updateArcPath(stored[id][1], stored[id][2], stored[id][3], zoomIdentity)

\* What a frame of a spawned particle does: it keeps the particle while the
\* clamped progress it reads is below 1 and removes it at the first frame
\* that reads 1; a removed particle stays removed.
ParticleFrameStep ==
  variant \in OneShotVariants =>
    /\ particle = "removed" => particle' = "removed"
    /\ (particle = "flying" /\ particle' = "flying") =>
         (Le(FrameProgress(now'), Num(1)) /\ FrameProgress(now') # Num(1))
    /\ (particle = "flying" /\ particle' = "removed") =>
         (FrameProgress(now') = Num(1) /\ FrameProgress(now) # Num(1))

\* C24: a particle created by spawnParticle is removed in the end, while
\* frames keep coming: it is in the DOM and its loop reschedules itself
\* only as long as its clamped progress is below 1, it is removed at the
\* first frame that reads a progress of 1, and once removed it stays
\* removed and no frame of it runs again.
C24_EventuallyRemoved ==
  /\ (variant \in OneShotVariants /\ particle = "flying"
        /\ startTime + duration <= MaxNow) ~> (particle = "removed")
  /\ [][ParticleFrameStep]_allVars

\* A particle was repositioned in a frame and removed in a later one.
C24_Witness ==
  /\ variant \in OneShotVariants
  /\ particle = "removed"
  /\ lastT # NULL
  /\ frameT # lastT

\* The spawns of LiveThreatMap that are in activeAttacks.
LiveListed == {live_activeAttacks[i] : i \in 1 .. Len(live_activeAttacks)}

\* C25: every spawned attack is in activeAttacks until its own duration has
\* elapsed, and only until then, so the length of activeAttacks, which the
\* 'Live Attacks' counter shows, is the number of spawns whose duration has
\* not elapsed yet.
C25_CountsUnexpired ==
  /\ LiveListed = live_expiries
  /\ Len(live_activeAttacks) = Cardinality(live_expiries)

\* The entries of activeAttacks that the last tick appended.
LastAppended == {i \in 1 .. Len(d3_activeAttacks) : d3_activeAttacks[i][2] = d3_tick}

\* C26: after every tick of the simulation no entry of activeAttacks has a
\* timestamp 30 s or more before the time of the tick, the tick has
\* appended between 1 and 5 entries, at the end of the list, the ids of
\* the entries are all different, and the list is no longer than the 5
\* entries of each of the 15 ticks that fit into 30 s.
C26_OnlyRecent ==
  d3_ticks > 0 =>
    /\ \A i \in 1 .. Len(d3_activeAttacks) :
         d3_tick - d3_activeAttacks[i][2] < D3_recentWindow
    /\ Cardinality(LastAppended) \in 1 .. D3_maxNewAttacks
    /\ \A i \in LastAppended : \A j \in i .. Len(d3_activeAttacks) : j \in LastAppended
    /\ \A i, j \in 1 .. Len(d3_activeAttacks) :
         i # j => d3_activeAttacks[i] # d3_activeAttacks[j]
    /\ Len(d3_activeAttacks)
         <= D3_maxNewAttacks * (D3_recentWindow \div D3_simulationInterval)

\* A third tick has dropped the entries of the first, which were 30 s old
\* or older, and has kept those of the second, five of them.
C26_Witness ==
  /\ d3_ticks = 3
  /\ \A i \in 1 .. Len(d3_activeAttacks) : d3_activeAttacks[i][2] > 16000
  /\ Len(d3_activeAttacks) > D3_maxNewAttacks
  /\ Cardinality(LastAppended) = D3_maxNewAttacks

\* scaleExtent([1, 8])
Zoom_scaleMin == 1
Zoom_scaleMax == 8

\* (width / 2, height / 2) of a component's viewport
ViewportCentre(v) ==
  IF v = "D3AnimatedArcs" THEN <<Half(Num(D3_width)), Half(Num(D3_height))>>
  ELSE <<Half(Num(Map_width)), Half(Num(Map_height))>>

\* A transform that scales by a factor within the scale extent and leaves
\* the viewport centre where it is.
CentreScaling(tr, v) ==
  /\ Le(Num(Zoom_scaleMin), tr[1])
  /\ Le(tr[1], Num(Zoom_scaleMax))
  /\ Apply(tr, ViewportCentre(v)) = ViewportCentre(v)

\* In the components vs, a step leaves the transform of the map group a
\* scaling about the viewport centre, and a drag leaves it as it was.
ZoomOnly(vs) ==
  variant \in vs =>
    /\ CentreScaling(countriesTransform', variant)
    /\ eventType' = "mousedown" => countriesTransform' = countriesTransform

CubicSampled ==
  /\ pc = "sampled" /\ Projected
  /\ variant \in {"AnimatedAttackArcs", "SimpleWorldMapCurve"}
  /\ curveType # "great-circle"

\* C28: for the cubic kinds, the sample of (source, target) at t is the sample
\* of (target, source) at 1 - t: swapping the endpoints swaps cp1 and cp2.
C28_CubicSymmetry ==
  CubicSampled =>
    position = SampleOf(variant, curveType, targetPoint, sourcePoint,
                        Sub(Num(1), progress))

\* A parabolic arc between points that differ in both coordinates, sampled off
\* the middle.
C28_Witness ==
  /\ CubicSampled /\ variant = "SimpleWorldMapCurve" /\ curveType = "parabolic"
  /\ sourcePoint[1] # targetPoint[1] /\ sourcePoint[2] # targetPoint[2]
  /\ progress = Rat(1, 4)
====
